---- MODULE Spec2Model ----
(***************************************************************************)
(* Verification model of the runner game's simulation core:                *)
(*   - OptimizedObjectPool            (src/unnamed/part_004)               *)
(*   - ObstacleManager / Obstacle     (src/unnamed/part_007, obstacle.js)  *)
(*   - PhysicsSystem collision tests  (src/js/objectPool.js)               *)
(*   - ScoreSystem combo rules        (src/js/systems/scoreSystem.js)      *)
(*   - GameScene combat resolution    (src/js/scenes/gameScene.js)         *)
(* Each component has its own specification (SpecPool, SpecSpawn, ...).    *)
(* A specification leaves the variables of the other components unchanged. *)
(***************************************************************************)
EXTENDS Integers, Naturals, Sequences, FiniteSets, TLC

VARIABLES
    \* ---- OptimizedObjectPool ----
    pool,               \* this.pool: free list, sequence of object ids
    active,             \* this.active: outstanding list, sequence of object ids
    created,            \* this.stats.created (also the last _poolId handed out)
    poolNamed,          \* set of object ids whose _poolName is still this pool's name
    statsCurrentActive, \* this.stats.currentActive
    statsPoolSize,      \* this.stats.poolSize
    statsPeakUsage,     \* this.stats.peakUsage
    strayReleases,      \* number of release() calls made on objects that were not outstanding
    lastOp,             \* the pool operation that produced the current state
    \* ---- ObstacleManager ----
    obstacles,              \* this.obstacles: live ground obstacles
    floatingObstacles,      \* this.floatingObstacles: live floating obstacles
    lastSpawnTime,          \* this.lastSpawnTime (ms)
    nextSpawnTime,          \* this.nextSpawnTime (ms)
    lastFloatingSpawnTime,  \* this.lastFloatingSpawnTime (ms)
    nextFloatingSpawnTime,  \* this.nextFloatingSpawnTime (ms)
    poolAvailable,          \* whether window.objectPoolManager is set
    obstaclePool,           \* the free list (this.pool) of the ObjectPool 'obstacles'
    activeObjects,          \* its this.activeObjects, in insertion order
    objectsMade,            \* Obstacle objects constructed so far (object k is the k-th)
    spawnEvent,             \* what the last ObstacleManager call did
    \* ---- PhysicsSystem ----
    entities,           \* the entity array of the last collision query
    spatialGrid,        \* this.spatialGrid: cell key -> indices of the entities in it
    collisions,         \* the pairs returned by the last collision query
    collisionChecks,    \* this.collisionChecks
    \* ---- ScoreSystem ----
    now,                \* performance.now() (ms)
    currentScore,       \* this.currentScore
    scoreMultiplier,    \* this.scoreMultiplier, in tenths
    comboCount,         \* this.comboCount
    lastShootTime,      \* this.lastShootTime (ms)
    hitLog,             \* the scoring events since construction or reset()
    scoreEvent,         \* what the last ScoreSystem call did
    \* ---- GameScene / BulletManager ----
    bullets,            \* bulletManager.bullets
    shootingStats,      \* gameScene.shootingStats
    hitEvent,           \* what the last GameScene combat call did
    bulletEvent,        \* what the last BulletManager call did
    \* ---- GameScene / Player ----
    gameState,          \* gameScene.gameState
    gameTime,           \* gameScene.gameTime (ticks)
    player,             \* gameScene.player
    highScore,          \* scoreSystem.highScore
    currentScene,       \* sceneManager.currentScene, by name
    sceneEvent,         \* what the last GameScene call did
    \* ---- GameEngine ----
    isRunning,          \* gameEngine.isRunning
    isPaused,           \* gameEngine.isPaused
    lastTime,           \* gameEngine.lastTime (ticks)
    deltaTime,          \* gameEngine.deltaTime (ticks)
    pending,            \* the calls of the running gameLoop frame still to be made
    frame,              \* what the running (or last) gameLoop frame has done
    removedLast,        \* obstacles the last ObstacleManager.update of SpecLive removed
    currentMaxBullets,  \* bulletManager.maxBullets
    call                \* the last call that is observed on its own: arguments and result

poolVars == <<pool, active, created, poolNamed, statsCurrentActive,
              statsPoolSize, statsPeakUsage>>

allPoolVars == <<poolVars, strayReleases, lastOp>>

obstaclePoolVars == <<obstaclePool, activeObjects, objectsMade>>

spawnVars == <<obstacles, floatingObstacles, lastSpawnTime, nextSpawnTime,
               lastFloatingSpawnTime, nextFloatingSpawnTime, poolAvailable,
               obstaclePoolVars, spawnEvent>>

gridVars == <<entities, spatialGrid, collisions, collisionChecks>>

scoreVars == <<now, currentScore, scoreMultiplier, comboCount, lastShootTime,
               hitLog, scoreEvent>>

combatVars == <<bullets, shootingStats, hitEvent, bulletEvent>>

sceneVars == <<gameState, gameTime, player, highScore, currentScene, sceneEvent>>

engineVars == <<isRunning, isPaused, lastTime, deltaTime, pending, frame>>

vars == <<allPoolVars, spawnVars, gridVars, scoreVars, combatVars, sceneVars,
          engineVars, removedLast, currentMaxBullets, call>>

----------------------------------------------------------------------------
(* Generic helpers on sequences and numbers *)

Min(a, b) == IF a < b THEN a ELSE b
Max(a, b) == IF a > b THEN a ELSE b

Range(s) == {s[i] : i \in 1..Len(s)}

\* Array.prototype.indexOf: first index holding x, 0 when absent (JS: -1)
IndexOf(s, x) ==
    IF \E i \in 1..Len(s) : s[i] = x
    THEN CHOOSE i \in 1..Len(s) : s[i] = x /\ \A j \in 1..(i-1) : s[j] # x
    ELSE 0

\* Array.prototype.splice(index, 1)
RemoveAt(s, i) == [j \in 1..(Len(s)-1) |-> IF j < i THEN s[j] ELSE s[j+1]]

\* number of positions of s holding x
Count(s, x) == Cardinality({i \in 1..Len(s) : s[i] = x})

\* the sequence n+1, n+2, ..., n+k
Fresh(n, k) == [i \in 1..k |-> n + i]

----------------------------------------------------------------------------
(* OptimizedObjectPool, src/unnamed/part_004 *)

InitialSize == 1     \* constructor argument initialSize
MaxSize     == 4     \* constructor argument maxSize
MaxCreated  == 6     \* the model stops creating objects beyond this id
MaxActive   == 5     \* the model stops handing out objects beyond this length
MaxStray    == 2     \* callers release a non-outstanding object at most this often

ForeignObject == 0   \* an object that was never created by this pool

\* getTotalSize(): pool.length + active.length
getTotalSize(p, a) == Len(p) + Len(a)

\* Math.ceil(currentSize * expansionFactor) with expansionFactor = 1.5
CeilExpansion(n) == (3 * n + 1) \div 2

\* expandPool(): number of objects pushed on the free list
expandCount(p, a) ==
    LET currentSize == getTotalSize(p, a)
        targetSize  == Min(CeilExpansion(currentSize), MaxSize)
    IN  IF targetSize - currentSize > 0 THEN targetSize - currentSize ELSE 0

\* get(): pop a free object, or create one and expand, or return null
OptimizedObjectPool_get ==
    \/ /\ Len(pool) > 0
       /\ Len(active) < MaxActive
       /\ LET obj == pool[Len(pool)]
              p1  == SubSeq(pool, 1, Len(pool) - 1)
              a1  == Append(active, obj)
          IN  /\ pool' = p1
              /\ active' = a1
              /\ statsCurrentActive' = Len(a1)
              /\ statsPoolSize' = Len(p1)
              /\ statsPeakUsage' = Max(statsPeakUsage, Len(a1))
              /\ UNCHANGED <<created, poolNamed, strayReleases>>
              /\ lastOp' = [op |-> "get", obj |-> obj]
    \/ /\ Len(pool) = 0
       /\ getTotalSize(pool, active) < MaxSize
       /\ LET obj == created + 1
              k   == expandCount(pool, active)   \* obj is not yet in active
              p1  == pool \o Fresh(created + 1, k)
              a1  == Append(active, obj)
          IN  /\ created + 1 + k <= MaxCreated
              /\ Len(active) < MaxActive
              /\ pool' = p1
              /\ active' = a1
              /\ created' = created + 1 + k
              /\ poolNamed' = poolNamed \cup (created + 1)..(created + 1 + k)
              /\ statsCurrentActive' = Len(a1)
              /\ statsPoolSize' = Len(p1)
              /\ statsPeakUsage' = Max(statsPeakUsage, Len(a1))
              /\ UNCHANGED strayReleases
              /\ lastOp' = [op |-> "get", obj |-> obj]
    \/ /\ Len(pool) = 0
       /\ ~(getTotalSize(pool, active) < MaxSize)
       /\ UNCHANGED <<poolVars, strayReleases>>
       /\ lastOp' = [op |-> "get", obj |-> -1]      \* return null

\* release(obj)
OptimizedObjectPool_release(obj) ==
    LET index == IndexOf(active, obj)
        a1    == IF index # 0 THEN RemoveAt(active, index) ELSE active
    IN  /\ active' = a1
        /\ strayReleases' = IF index = 0 THEN strayReleases + 1 ELSE strayReleases
        /\ strayReleases' <= MaxStray
        /\ IF obj \notin poolNamed
           THEN \* obj._poolName !== this.name: warn and return
                /\ UNCHANGED <<pool, created, poolNamed, statsCurrentActive,
                               statsPoolSize, statsPeakUsage>>
                /\ lastOp' = [op |-> "release_foreign", obj |-> obj]
           ELSE IF Len(pool) >= MaxSize
           THEN \* free list full: destroyObject(obj) and return
                /\ poolNamed' = poolNamed \ {obj}
                /\ UNCHANGED <<pool, created, statsCurrentActive,
                               statsPoolSize, statsPeakUsage>>
                /\ lastOp' = [op |-> "release_destroy", obj |-> obj]
           ELSE /\ pool' = Append(pool, obj)
                /\ statsCurrentActive' = Len(a1)
                /\ statsPoolSize' = Len(pool) + 1
                /\ UNCHANGED <<created, poolNamed, statsPeakUsage>>
                /\ lastOp' = [op |-> "release", obj |-> obj]

PoolInit ==
    /\ pool = Fresh(0, InitialSize)
    /\ active = <<>>
    /\ created = InitialSize
    /\ poolNamed = 1..InitialSize
    /\ statsCurrentActive = 0
    /\ statsPoolSize = InitialSize
    /\ statsPeakUsage = 0
    /\ strayReleases = 0
    /\ lastOp = [op |-> "init", obj |-> -1]


----------------------------------------------------------------------------
(* GameConfig, src/js/config.js.  Lengths are kept in units of               *)
(* 1/UnitsPerPixel pixel and times in milliseconds, so that an obstacle      *)
(* drifting at OBSTACLE_SPEED moves exactly one unit per millisecond.        *)

CANVAS_WIDTH   == 800
GROUND_Y       == 350
OBSTACLE_SPEED == 200
OBSTACLE_WIDTH == 32
OBSTACLE_HEIGHT == 32
MIN_GAP        == 150
OBSTACLE_SPAWN_INTERVAL == 2000
FLOATING_OBSTACLE_SPAWN_INTERVAL == 3000
FLOATING_OBSTACLE_MIN_Y == 100
FLOATING_OBSTACLE_MAX_Y == 250

UnitsPerPixel == 1000 \div OBSTACLE_SPEED
U(px) == px * UnitsPerPixel

\* this.health = Infinity
Infinity == 1000000

GroundTypes   == {"basic", "tall", "wide"}
FloatingTypes == {"floating", "floating_large"}

\* deltaTime values (ms) passed to update()
DeltaTimes == {400, 2000}

\* Utils.random(0.8 * interval, 1.2 * interval): lowest, middle, highest value
NextSpawnTimes == {(OBSTACLE_SPAWN_INTERVAL * 8) \div 10,
                   OBSTACLE_SPAWN_INTERVAL,
                   (OBSTACLE_SPAWN_INTERVAL * 12) \div 10 - 1}

\* Utils.random(0.7 * interval, 1.3 * interval)
NextFloatingSpawnTimes == {(FLOATING_OBSTACLE_SPAWN_INTERVAL * 7) \div 10,
                           FLOATING_OBSTACLE_SPAWN_INTERVAL,
                           (FLOATING_OBSTACLE_SPAWN_INTERVAL * 13) \div 10 - 1}

\* MIN_Y + Math.random() * (MAX_Y - MIN_Y): lowest and highest value
SpawnYs == {U(FLOATING_OBSTACLE_MIN_Y), U(FLOATING_OBSTACLE_MAX_Y) - 1}

\* Math.sin(floatingOffset) * floatingAmplitude with amplitude in [20, 50):
\* the extreme values
FloatingYs == {1 - U(50), U(50) - 1}

----------------------------------------------------------------------------
(* Obstacle, src/js/entities/obstacle.js *)

\* isFloating()
isFloating(type) == type = "floating" \/ type = "floating_large"

\* new Obstacle(x, y, type): Entity constructor followed by setupObstacleType
NewObstacle(x, y, type) ==
    LET w == IF type = "wide" THEN (U(OBSTACLE_WIDTH) * 15) \div 10
             ELSE IF type = "floating_large" THEN (U(OBSTACLE_WIDTH) * 12) \div 10
             ELSE U(OBSTACLE_WIDTH)
        h == IF type = "tall" THEN (U(OBSTACLE_HEIGHT) * 15) \div 10
             ELSE IF type = "floating_large" THEN (U(OBSTACLE_HEIGHT) * 12) \div 10
             ELSE U(OBSTACLE_HEIGHT)
    IN  [x |-> x,
         y |-> IF isFloating(type) THEN y ELSE U(GROUND_Y) - h,
         width |-> w,
         height |-> h,
         type |-> type,
         active |-> TRUE,
         canBeShot |-> isFloating(type),
         health |-> IF type = "floating" THEN 1
                    ELSE IF type = "floating_large" THEN 2 ELSE Infinity,
         originalY |-> y,
         pooled |-> FALSE]

\* the re-initialisation of spawnObstacle with obstacle.y = y
PooledObstacle_TopAtGround(x, y, type) ==
    [x |-> x, y |-> y, width |-> U(OBSTACLE_WIDTH), height |-> U(OBSTACLE_HEIGHT),
     type |-> type, active |-> TRUE, canBeShot |-> FALSE, health |-> Infinity,
     originalY |-> 0, pooled |-> TRUE]

\* an object of the 'obstacles' pool (created as new Obstacle(0, 0, 'box'))
\* after the re-initialisation of spawnObstacle
PooledObstacle(x, y, type) ==
    [x |-> x,
     y |-> y - U(OBSTACLE_HEIGHT),
     width |-> U(OBSTACLE_WIDTH),
     height |-> U(OBSTACLE_HEIGHT),
     type |-> type,
     active |-> TRUE,
     canBeShot |-> FALSE,
     health |-> Infinity,
     originalY |-> 0,
     pooled |-> TRUE]

\* isOffscreenLeft()
isOffscreenLeft(o) == o.x + o.width < 0

\* updateFloatingMovement without the final clamp into the band
updateFloatingMovement_NoClamp(o, s) == [o EXCEPT !.y = o.originalY + s]

\* updateFloatingMovement(deltaTime); s is Math.sin(floatingOffset) * floatingAmplitude
updateFloatingMovement(o, s) ==
    LET minY == U(50)
        maxY == U(GROUND_Y) - o.height - U(50)
    IN  [o EXCEPT !.y = Max(minY, Min(maxY, o.originalY + s))]

\* Obstacle.update(deltaTime): Entity.update, floating movement, off-screen test
Obstacle_update(o, dt, s) ==
    LET o1 == [o EXCEPT !.x = o.x - dt]
        o2 == IF isFloating(o1.type) THEN updateFloatingMovement(o1, s) ELSE o1
    IN  IF isOffscreenLeft(o2) THEN [o2 EXCEPT !.active = FALSE] ELSE o2

\* takeDamage(): the obstacle after the hit
takeDamage(o) ==
    IF ~o.canBeShot THEN o
    ELSE IF o.health - 1 <= 0
         THEN [o EXCEPT !.health = o.health - 1, !.active = FALSE]
         ELSE [o EXCEPT !.health = o.health - 1]

\* takeDamage() reporting every hit on a shootable obstacle as a kill
takeDamageDestroys_AnyHit(o) == o.canBeShot

\* takeDamage(): the return value
takeDamageDestroys(o) == o.canBeShot /\ o.health - 1 <= 0

----------------------------------------------------------------------------
(* ObstacleManager, src/unnamed/part_007 *)

\* the reduce of canSpawnObstacle: the first obstacle with the largest x
Rightmost(obs) ==
    LET i == CHOOSE k \in 1..Len(obs) :
                 /\ \A j \in 1..Len(obs) : obs[j].x <= obs[k].x
                 /\ \A j \in 1..(k-1) : obs[j].x < obs[k].x
    IN  obs[i]

\* canSpawnObstacle measuring from the left edge of the rightmost obstacle
canSpawnObstacle_LeftEdge(obs) ==
    IF Len(obs) = 0 THEN TRUE
    ELSE LET r == Rightmost(obs)
         IN  U(CANVAS_WIDTH) - r.x >= U(MIN_GAP)

\* canSpawnObstacle() and canSpawnFloatingObstacle()
canSpawnObstacle(obs) ==
    IF Len(obs) = 0 THEN TRUE
    ELSE LET r == Rightmost(obs)
         IN  U(CANVAS_WIDTH) - (r.x + r.width) >= U(MIN_GAP)

\* spawnObstacle(): the ground collection after the call
spawnObstacle(obs, type, usePool) ==
    IF ~canSpawnObstacle(obs) THEN obs
    ELSE IF usePool
         THEN Append(obs, PooledObstacle(U(CANVAS_WIDTH), U(GROUND_Y), type))
         ELSE Append(obs, NewObstacle(U(CANVAS_WIDTH), U(GROUND_Y), type))

\* spawnFloatingObstacle(): the floating collection after the call
\* (no pool named 'floatingObstacles' exists, objectPoolManager.get gives null)
spawnFloatingObstacle(obs, type, y) ==
    IF ~canSpawnObstacle(obs) THEN obs
    ELSE Append(obs, NewObstacle(U(CANVAS_WIDTH), y, type))

\* removeOffscreenObstacles(): one collection after the filter
removeOffscreenObstacles(obs) ==
    LET keep(o) == ~(~o.active \/ isOffscreenLeft(o))
    IN  SelectSeq(obs, keep)

\* update(deltaTime).  D gives the sets the random draws of this call are taken
\* from; a draw is made only where the code makes it.
ObstacleManager_update(dt, D) ==
    LET lst   == lastSpawnTime + dt
        lfst  == lastFloatingSpawnTime + dt
        due   == lst >= nextSpawnTime
        fdue  == lfst >= nextFloatingSpawnTime
        gate  == due /\ canSpawnObstacle(obstacles)
        fgate == fdue /\ canSpawnObstacle(floatingObstacles)
    IN  \E type  \in (IF gate THEN D.types ELSE {"basic"}),
           ftype \in (IF fgate THEN D.ftypes ELSE {"floating"}),
           y     \in (IF fgate THEN D.ys ELSE {U(FLOATING_OBSTACLE_MIN_Y)}),
           nst   \in (IF due THEN D.nsts ELSE {nextSpawnTime}),
           nfst  \in (IF fdue THEN D.nfsts ELSE {nextFloatingSpawnTime}) :
        LET obs1  == IF due THEN spawnObstacle(obstacles, type, poolAvailable)
                     ELSE obstacles
            fobs1 == IF fdue THEN spawnFloatingObstacle(floatingObstacles, ftype, y)
                     ELSE floatingObstacles
        IN  \E s \in [1..Len(fobs1) -> D.fys] :
              /\ lastSpawnTime' = IF due THEN 0 ELSE lst
              /\ nextSpawnTime' = nst
              /\ lastFloatingSpawnTime' = IF fdue THEN 0 ELSE lfst
              /\ nextFloatingSpawnTime' = nfst
              /\ obstacles' = removeOffscreenObstacles(
                     [i \in 1..Len(obs1) |-> Obstacle_update(obs1[i], dt, 0)])
              /\ floatingObstacles' = removeOffscreenObstacles(
                     [i \in 1..Len(fobs1) |-> Obstacle_update(fobs1[i], dt, s[i])])
              /\ spawnEvent' = [op |-> "update", dt |-> dt,
                                due |-> due,
                                spawned |-> Len(obs1) > Len(obstacles),
                                fdue |-> fdue,
                                fspawned |-> Len(fobs1) > Len(floatingObstacles)]
              /\ UNCHANGED <<poolAvailable, obstaclePoolVars>>

\* clearAllObstacles()
ObstacleManager_clearAllObstacles ==
    /\ obstacles' = <<>>
    /\ floatingObstacles' = <<>>
    /\ lastSpawnTime' = 0
    /\ lastFloatingSpawnTime' = 0
    /\ nextSpawnTime' = OBSTACLE_SPAWN_INTERVAL
    /\ nextFloatingSpawnTime' = FLOATING_OBSTACLE_SPAWN_INTERVAL
    /\ spawnEvent' = [op |-> "clear", dt |-> 0, due |-> FALSE, spawned |-> FALSE,
                      fdue |-> FALSE, fspawned |-> FALSE]
    /\ UNCHANGED <<poolAvailable, obstaclePoolVars>>

----------------------------------------------------------------------------
(* ObstacleManager over the objects of the 'obstacles' ObjectPool,
   src/js/objectPool.js and src/unnamed/part_007: every Obstacle object has
   an identity, and a live collection holds objects, not copies *)

ObstaclePoolSize == 1   \* createPool('obstacles', ..., initialSize)
MaxObjects       == 4   \* the model constructs no Obstacle beyond this one

\* the obstacle o as the object id
Identified(o, id) == [id |-> id] @@ o

\* the fields of the ObjectPool 'obstacles'
ObstaclePoolState ==
    [pool |-> obstaclePool, active |-> activeObjects, made |-> objectsMade]

\* Set.prototype.add
setAdd(set, x) == IF x \in Range(set) THEN set ELSE Append(set, x)

\* ObjectPool.get(): the object handed out and the pool afterwards
ObjectPool_get(S) ==
    IF Len(S.pool) > 0
    THEN LET obj == S.pool[Len(S.pool)]
         IN  [obj |-> obj,
              S |-> [S EXCEPT !.pool = SubSeq(S.pool, 1, Len(S.pool) - 1),
                              !.active = setAdd(S.active, obj)]]
    ELSE [obj |-> S.made + 1,
          S |-> [S EXCEPT !.made = S.made + 1,
                          !.active = setAdd(S.active, S.made + 1)]]

\* ObjectPool.release(obj): the pool afterwards
ObjectPool_release(S, obj) ==
    IF obj \notin Range(S.active) THEN S
    ELSE [S EXCEPT !.active = SelectSeq(S.active, LAMBDA a : a # obj),
                   !.pool = Append(S.pool, obj)]

\* objectPoolManager.release('obstacles', o) for each o of objs, in order
RECURSIVE releasedEach(_, _)
releasedEach(S, objs) ==
    IF objs = <<>> THEN S
    ELSE releasedEach(ObjectPool_release(S, Head(objs).id), Tail(objs))

\* the resetFn of the pool 'obstacles'
resetObstacle(o) == [o EXCEPT !.x = 0, !.y = 0, !.active = FALSE]

\* a write to the object rec.id, seen at every position that holds it
written(obs, rec) ==
    [j \in 1..Len(obs) |-> IF obs[j].id = rec.id THEN rec ELSE obs[j]]

\* collection.forEach(obstacle => obstacle.update(deltaTime)): an object held
\* at two positions is updated at each of them
RECURSIVE updateEach(_, _, _, _)
updateEach(obs, i, dt, s) ==
    IF i > Len(obs) THEN obs
    ELSE updateEach(written(obs, Obstacle_update(obs[i], dt, s[i])), i + 1, dt, s)

\* what removeOffscreenObstacles() takes out of a collection
offscreenObstacles(obs) ==
    SelectSeq(obs, LAMBDA o : ~o.active \/ isOffscreenLeft(o))

\* update(deltaTime) on objects: spawnObstacle with objectPoolManager.get,
\* spawnFloatingObstacle, the two forEach, removeOffscreenObstacles with
\* objectPoolManager.release
ObstacleManager_updateObjects(dt, D) ==
    LET lst   == lastSpawnTime + dt
        lfst  == lastFloatingSpawnTime + dt
        due   == lst >= nextSpawnTime
        fdue  == lfst >= nextFloatingSpawnTime
        gate  == due /\ canSpawnObstacle(obstacles)
        fgate == fdue /\ canSpawnObstacle(floatingObstacles)
    IN  \E type  \in (IF gate THEN D.types ELSE {"basic"}),
           ftype \in (IF fgate THEN D.ftypes ELSE {"floating"}),
           y     \in (IF fgate THEN D.ys ELSE {U(FLOATING_OBSTACLE_MIN_Y)}),
           nst   \in (IF due THEN D.nsts ELSE {nextSpawnTime}),
           nfst  \in (IF fdue THEN D.nfsts ELSE {nextFloatingSpawnTime}) :
        LET S0    == ObstaclePoolState
            got   == IF gate /\ poolAvailable THEN ObjectPool_get(S0)
                     ELSE IF gate
                     THEN [obj |-> S0.made + 1, S |-> [S0 EXCEPT !.made = @ + 1]]
                     ELSE [obj |-> 0, S |-> S0]
            new   == Identified(
                         IF poolAvailable
                         THEN PooledObstacle(U(CANVAS_WIDTH), U(GROUND_Y), type)
                         ELSE NewObstacle(U(CANVAS_WIDTH), U(GROUND_Y), type),
                         got.obj)
            obs1  == IF gate THEN Append(written(obstacles, new), new)
                     ELSE obstacles
            S1    == got.S
            fnew  == Identified(NewObstacle(U(CANVAS_WIDTH), y, ftype), S1.made + 1)
            fobs1 == IF fgate THEN Append(floatingObstacles, fnew)
                     ELSE floatingObstacles
            S2    == IF fgate THEN [S1 EXCEPT !.made = @ + 1] ELSE S1
            moved == updateEach(obs1, 1, dt, [i \in 1..Len(obs1) |-> 0])
            S3    == IF poolAvailable
                     THEN releasedEach(S2, offscreenObstacles(moved))
                     ELSE S2
        IN  \E s \in [1..Len(fobs1) -> D.fys] :
              /\ S3.made <= MaxObjects
              /\ lastSpawnTime' = IF due THEN 0 ELSE lst
              /\ nextSpawnTime' = nst
              /\ lastFloatingSpawnTime' = IF fdue THEN 0 ELSE lfst
              /\ nextFloatingSpawnTime' = nfst
              /\ obstacles' = removeOffscreenObstacles(moved)
              /\ floatingObstacles' =
                     removeOffscreenObstacles(updateEach(fobs1, 1, dt, s))
              /\ obstaclePool' = S3.pool
              /\ activeObjects' = S3.active
              /\ objectsMade' = S3.made
              /\ spawnEvent' = [op |-> "update", dt |-> dt,
                                due |-> due, spawned |-> gate,
                                fdue |-> fdue, fspawned |-> fgate]
              /\ UNCHANGED poolAvailable

\* removeObstacle(obstacle) for the object id: splice at indexOf, release
ObstacleManager_removeObstacle(id) ==
    LET ground   == [i \in 1..Len(obstacles) |-> obstacles[i].id]
        floating == [i \in 1..Len(floatingObstacles) |-> floatingObstacles[i].id]
        S        == IF poolAvailable THEN ObjectPool_release(ObstaclePoolState, id)
                    ELSE ObstaclePoolState
    IN  /\ id \in Range(ground) \cup Range(floating)
        /\ IF IndexOf(ground, id) # 0
           THEN /\ obstacles' = RemoveAt(obstacles, IndexOf(ground, id))
                /\ obstaclePool' = S.pool
                /\ activeObjects' = S.active
                /\ UNCHANGED floatingObstacles
           ELSE /\ floatingObstacles' =
                       RemoveAt(floatingObstacles, IndexOf(floating, id))
                /\ UNCHANGED <<obstacles, obstaclePool, activeObjects>>
        /\ spawnEvent' = [op |-> "removeObstacle", dt |-> 0, due |-> FALSE,
                          spawned |-> FALSE, fdue |-> FALSE, fspawned |-> FALSE]
        /\ UNCHANGED <<lastSpawnTime, nextSpawnTime, lastFloatingSpawnTime,
                       nextFloatingSpawnTime, poolAvailable, objectsMade>>

\* clearAllObstacles() on objects: every ground obstacle is released first
ObstacleManager_clearAllObjects ==
    LET S == IF poolAvailable THEN releasedEach(ObstaclePoolState, obstacles)
             ELSE ObstaclePoolState
    IN  /\ obstacles' = <<>>
        /\ floatingObstacles' = <<>>
        /\ lastSpawnTime' = 0
        /\ lastFloatingSpawnTime' = 0
        /\ nextSpawnTime' = OBSTACLE_SPAWN_INTERVAL
        /\ nextFloatingSpawnTime' = FLOATING_OBSTACLE_SPAWN_INTERVAL
        /\ obstaclePool' = S.pool
        /\ activeObjects' = S.active
        /\ spawnEvent' = [op |-> "clear", dt |-> 0, due |-> FALSE,
                          spawned |-> FALSE, fdue |-> FALSE, fspawned |-> FALSE]
        /\ UNCHANGED <<poolAvailable, objectsMade>>

\* objectPoolManager.releaseAll(): ObjectPool.releaseAll() of the pool
\* 'obstacles' resets every object of activeObjects and pushes it on the free
\* list; the live collections are not touched
ObjectPoolManager_releaseAll ==
    LET reset(o) == IF o.id \in Range(activeObjects) THEN resetObstacle(o) ELSE o
    IN  /\ obstaclePool' = obstaclePool \o activeObjects
        /\ activeObjects' = <<>>
        /\ obstacles' = [i \in 1..Len(obstacles) |-> reset(obstacles[i])]
        /\ floatingObstacles' =
               [i \in 1..Len(floatingObstacles) |-> reset(floatingObstacles[i])]
        /\ spawnEvent' = [op |-> "releaseAll", dt |-> 0, due |-> FALSE,
                          spawned |-> FALSE, fdue |-> FALSE, fspawned |-> FALSE]
        /\ UNCHANGED <<lastSpawnTime, nextSpawnTime, lastFloatingSpawnTime,
                       nextFloatingSpawnTime, poolAvailable, objectsMade>>

SpawnInit ==
    /\ obstacles = <<>>
    /\ floatingObstacles = <<>>
    /\ lastSpawnTime = 0
    /\ lastFloatingSpawnTime = 0
    /\ nextSpawnTime = OBSTACLE_SPAWN_INTERVAL
    /\ nextFloatingSpawnTime = FLOATING_OBSTACLE_SPAWN_INTERVAL
    /\ poolAvailable \in BOOLEAN
    /\ obstaclePool = Fresh(0, ObstaclePoolSize)
    /\ activeObjects = <<>>
    /\ objectsMade = ObstaclePoolSize
    /\ spawnEvent = [op |-> "init", dt |-> 0, due |-> FALSE, spawned |-> FALSE,
                     fdue |-> FALSE, fspawned |-> FALSE]

----------------------------------------------------------------------------
(* PhysicsSystem, src/js/objectPool.js.  Entity snapshots are in pixels. *)

gridSize == 64

MaxEntities        == 2   \* entities in one collision query
MaxCollisionChecks == 3   \* the model stops querying beyond this count

EntityXs == {0, 40, 60, 70}
EntityYs == {0, 60}

\* the entities a query may hold: OBSTACLE-sized boxes, active or not
EntityDraws ==
    [x : EntityXs, y : EntityYs, width : {OBSTACLE_WIDTH},
     height : {OBSTACLE_HEIGHT}, active : BOOLEAN]

Snapshots == UNION {[1..n -> EntityDraws] : n \in 0..MaxEntities}

\* checkRectangleCollision(rect1, rect2): strict AABB overlap
checkRectangleCollision(rect1, rect2) ==
    /\ rect1.x < rect2.x + rect2.width
    /\ rect1.x + rect1.width > rect2.x
    /\ rect1.y < rect2.y + rect2.height
    /\ rect1.y + rect1.height > rect2.y

\* Math.min of four numbers
Min4(a, b, c, d) == Min(Min(a, b), Min(c, d))

\* the four overlaps getCollisionPoint and getCollisionSide compute
overlapLeft(rect1, rect2)   == (rect1.x + rect1.width) - rect2.x
overlapRight(rect1, rect2)  == (rect2.x + rect2.width) - rect1.x
overlapTop(rect1, rect2)    == (rect1.y + rect1.height) - rect2.y
overlapBottom(rect1, rect2) == (rect2.y + rect2.height) - rect1.y

minOverlap(rect1, rect2) ==
    Min4(overlapLeft(rect1, rect2), overlapRight(rect1, rect2),
         overlapTop(rect1, rect2), overlapBottom(rect1, rect2))

\* getCollisionSide testing the four overlaps in the order bottom, top, right,
\* left
getCollisionSide_Reversed(rect1, rect2) ==
    IF minOverlap(rect1, rect2) = overlapBottom(rect1, rect2) THEN "bottom"
    ELSE IF minOverlap(rect1, rect2) = overlapTop(rect1, rect2) THEN "top"
    ELSE IF minOverlap(rect1, rect2) = overlapRight(rect1, rect2) THEN "right"
    ELSE "left"

\* getCollisionSide(rect1, rect2)
getCollisionSide(rect1, rect2) ==
    IF minOverlap(rect1, rect2) = overlapLeft(rect1, rect2) THEN "left"
    ELSE IF minOverlap(rect1, rect2) = overlapRight(rect1, rect2) THEN "right"
    ELSE IF minOverlap(rect1, rect2) = overlapTop(rect1, rect2) THEN "top"
    ELSE "bottom"

\* getCollisionPoint(rect1, rect2); the rectangles of the model have even
\* widths and heights, so the halves are whole
getCollisionPoint(rect1, rect2) ==
    IF minOverlap(rect1, rect2) = overlapLeft(rect1, rect2)
    THEN [x |-> rect2.x, y |-> rect1.y + rect1.height \div 2]
    ELSE IF minOverlap(rect1, rect2) = overlapRight(rect1, rect2)
    THEN [x |-> rect2.x + rect2.width, y |-> rect1.y + rect1.height \div 2]
    ELSE IF minOverlap(rect1, rect2) = overlapTop(rect1, rect2)
    THEN [x |-> rect1.x + rect1.width \div 2, y |-> rect2.y]
    ELSE [x |-> rect1.x + rect1.width \div 2, y |-> rect2.y + rect2.height]

\* the collisionPoint and collisionSide fields checkPlayerObstacleCollision
\* builds for a pair of bounds
PhysicsSystem_collisionInfo(rect1, rect2) ==
    call' = [op |-> "collisionInfo", rect1 |-> rect1, rect2 |-> rect2,
             collisionPoint |-> getCollisionPoint(rect1, rect2),
             collisionSide |-> getCollisionSide(rect1, rect2)]

\* `${gridX},${gridY}` with Math.floor(entity.x / gridSize), Math.floor(entity.y / gridSize)
gridKey(e) == <<e.x \div gridSize, e.y \div gridSize>>

\* first loop of checkCollisionsWithSpatialPartitioning: the filled grid
buildSpatialGrid(es) ==
    LET idx  == [i \in 1..Len(es) |-> i]
        keys == {gridKey(es[i]) : i \in {j \in 1..Len(es) : es[j].active}}
    IN  [k \in keys |->
            LET inCell(i) == es[i].active /\ gridKey(es[i]) = k
            IN  SelectSeq(idx, inCell)]

\* second loop: the pairs (i < j) of one cell's list
cellPairs(c) ==
    {<<c[q[1]], c[q[2]]>> : q \in {r \in (1..Len(c)) \X (1..Len(c)) : r[1] < r[2]}}

\* every pair the second loop tests
testedPairs(grid) == UNION {cellPairs(grid[k]) : k \in DOMAIN grid}

\* checkCollisionsWithSpatialPartitioning(entities)
PhysicsSystem_checkCollisionsWithSpatialPartitioning(es) ==
    LET grid  == buildSpatialGrid(es)
        pairs == testedPairs(grid)
    IN  /\ collisionChecks + Cardinality(pairs) <= MaxCollisionChecks
        /\ entities' = es
        /\ spatialGrid' = grid
        /\ collisions' = {{q[1], q[2]} : q \in
                             {r \in pairs : checkRectangleCollision(es[r[1]], es[r[2]])}}
        /\ collisionChecks' = collisionChecks + Cardinality(pairs)

GridInit ==
    /\ entities = <<>>
    /\ spatialGrid = <<>>
    /\ collisions = {}
    /\ collisionChecks = 0

----------------------------------------------------------------------------
(* ScoreSystem, src/js/systems/scoreSystem.js.  Multipliers are in tenths. *)

comboTimeWindow == 3000
TIME_SCORE_RATE == 10
OBSTACLE_BONUS  == 50
PLAYER_SPEED    == 200

MaxNow  == 13500   \* the clock of the model stops here
MaxHits == 5       \* scoring events per session in the model

\* how far the clock advances between two calls
ClockSteps == {2500, 3000, 3001}

\* deltaTime of a frame (ms): 60 fps, and the engine's upper clamp of 1/30 s
FrameTimes == {16, 33}

\* gameData.gameTime (ms)
GameTimes == {0, 30000}

\* config.SHOOT_SCORES[obstacleType] || config.SHOOT_SCORES['floating']
ShootScore(type) ==
    CASE type = "floating"       -> 50
      [] type = "floating_large" -> 100
      [] type = "basic"          -> 25
      [] type = "tall"           -> 75
      [] type = "wide"           -> 60
      [] OTHER                   -> 50

\* getComboMultiplier trying the thresholds in ascending order
getComboMultiplier_Ascending(c) == IF c >= 2 THEN 12 ELSE 10

\* config.COMBO_MULTIPLIERS, the multipliers in tenths
COMBO_MULTIPLIERS ==
    (2 :> 12) @@ (3 :> 15) @@ (5 :> 20) @@ (10 :> 30) @@ (15 :> 40) @@ (20 :> 50)

\* keys.sort((a, b) => b - a)
RECURSIVE sortDescending(_)
sortDescending(keys) ==
    IF keys = {} THEN <<>>
    ELSE LET largest == CHOOSE k \in keys : \A j \in keys : j <= k
         IN  <<largest>> \o sortDescending(keys \ {largest})

comboKeys == sortDescending(DOMAIN COMBO_MULTIPLIERS)

\* for (const threshold of keys) if (comboCount >= threshold) return ...;
\* return 1.0
RECURSIVE firstThreshold(_, _)
firstThreshold(keys, c) ==
    IF keys = <<>> THEN 10
    ELSE IF c >= Head(keys) THEN COMBO_MULTIPLIERS[Head(keys)]
    ELSE firstThreshold(Tail(keys), c)

\* getComboMultiplier with the comparison comboCount > threshold
getComboMultiplier_Strict(c) == firstThreshold(comboKeys, c - 1)

\* getComboMultiplier(comboCount): thresholds tried from the largest down
getComboMultiplier(c) == firstThreshold(comboKeys, c)

\* a call of getComboMultiplier(comboCount) and what it returns
ScoreSystem_getComboMultiplier(c) ==
    call' = [op |-> "getComboMultiplier", comboCount |-> c,
             returned |-> getComboMultiplier(c)]

\* the combo test with a strict comparison
withinComboWindow_Strict(t, last) == t - last < comboTimeWindow

\* currentTime - this.lastShootTime <= this.comboTimeWindow
withinComboWindow(t, last) == t - last <= comboTimeWindow

\* The pairs <<points, m>> with a final shooting score `points` and the
\* multiplier m/10 for which Math.floor(points * scoreMultiplier) is one less
\* than the exact floor(points * m / 10): scoreMultiplier is the double
\* 1 + k * 0.1 (1.4, 2.3 and 2.8 lie just below their decimal values) and the
\* double product stays below the integer.
DoubleFloorDeficit ==
    {<<90, 14>>, <<180, 14>>,
     <<50, 23>>, <<90, 23>>, <<100, 23>>, <<180, 23>>, <<200, 23>>, <<400, 23>>,
     <<90, 28>>, <<180, 28>>}

\* addScore without its test of the sign of the points
addedScore_Unguarded(num, den, mult) == (num * mult) \div (den * 10)

\* addScore(points) for points = num / den: the amount added to currentScore,
\* Math.floor(points * this.scoreMultiplier)
addedScore(num, den, mult) ==
    IF num > 0
    THEN IF den = 1 /\ <<num, mult>> \in DoubleFloorDeficit
         THEN (num * mult) \div 10 - 1
         ELSE (num * mult) \div (den * 10)
    ELSE 0

\* whether update() has run since the last scoring event
UpdatedSinceHit == scoreEvent.op # "addShootingScore" /\ scoreEvent.updated

\* addShootingScore(obstacleType)
ScoreSystem_addShootingScore(type) ==
    LET c     == IF withinComboWindow(now, lastShootTime) THEN comboCount + 1 ELSE 1
        m     == getComboMultiplier(c)
        final == (ShootScore(type) * m) \div 10
    IN  /\ Len(hitLog) < MaxHits
        /\ comboCount' = c
        /\ lastShootTime' = now
        /\ currentScore' = currentScore + addedScore(final, 1, scoreMultiplier)
        /\ hitLog' = Append(hitLog, [combo |-> c, mult |-> m,
                                     quick |-> now - lastShootTime <= 2500])
        /\ scoreEvent' = [op |-> "addShootingScore", gap |-> now - lastShootTime,
                          updated |-> UpdatedSinceHit,
                          gameTime |-> scoreEvent.gameTime,
                          base |-> ShootScore(type),
                          gain |-> addedScore(final, 1, scoreMultiplier)]
        /\ UNCHANGED <<now, scoreMultiplier>>

\* checkComboExpiry(): the combo count after the call
checkComboExpiry(c, t, last) == IF t - last > comboTimeWindow THEN 0 ELSE c

\* update(deltaTime, gameData) as GameScene.update calls it:
\* gameData = {gameTime: gt, distanceTraveled: deltaTime * PLAYER_SPEED}
ScoreSystem_update(dt, gt) ==
    LET timeGain == addedScore(dt * TIME_SCORE_RATE, 1000, scoreMultiplier)
        distGain == addedScore(dt * PLAYER_SPEED, 10000, scoreMultiplier)
        timeMult == Min(30, 10 + gt \div 30000)
    IN  /\ currentScore' = currentScore + timeGain + distGain
        /\ scoreMultiplier' = IF gt > 0 THEN Max(10, timeMult)
                              ELSE scoreMultiplier
        /\ comboCount' = checkComboExpiry(comboCount, now, lastShootTime)
        /\ scoreEvent' = [op |-> "update", gap |-> 0, updated |-> TRUE,
                          gameTime |-> gt, base |-> 0,
                          gain |-> timeGain + distGain]
        /\ UNCHANGED <<now, lastShootTime, hitLog>>

\* reset()
ScoreSystem_reset ==
    /\ currentScore' = 0
    /\ scoreMultiplier' = 10
    /\ comboCount' = 0
    /\ lastShootTime' = 0
    /\ hitLog' = <<>>
    /\ scoreEvent' = [op |-> "reset", gap |-> 0, updated |-> FALSE,
                      gameTime |-> 0, base |-> 0, gain |-> 0]
    /\ UNCHANGED now

\* a call of one of the scoring methods that leave the combo alone:
\* points = num / den are handed to addScore
scoreCall(name, num, den) ==
    LET gain == addedScore(num, den, scoreMultiplier)
    IN  /\ currentScore' = currentScore + gain
        /\ scoreEvent' = [op |-> name, gap |-> 0, updated |-> UpdatedSinceHit,
                          gameTime |-> scoreEvent.gameTime, base |-> num,
                          gain |-> gain]
        /\ UNCHANGED <<now, scoreMultiplier, comboCount, lastShootTime, hitLog>>

\* addScore(points)
ScoreSystem_addScore(points) == scoreCall("addScore", points, 1)

\* addTimeScore(deltaTime), deltaTime in ms
ScoreSystem_addTimeScore(dt) == scoreCall("addTimeScore", dt * TIME_SCORE_RATE, 1000)

\* addDistanceScore(distance), distance in px: distance * DISTANCE_MULTIPLIER
ScoreSystem_addDistanceScore(distance) == scoreCall("addDistanceScore", distance, 10)

\* addObstacleBonus()
ScoreSystem_addObstacleBonus == scoreCall("addObstacleBonus", OBSTACLE_BONUS, 1)

\* setScoreMultiplier(multiplier), multiplier in tenths
ScoreSystem_setScoreMultiplier(multiplier) ==
    /\ scoreMultiplier' = Max(10, multiplier)
    /\ scoreEvent' = [op |-> "setScoreMultiplier", gap |-> 0,
                      updated |-> UpdatedSinceHit,
                      gameTime |-> scoreEvent.gameTime, base |-> multiplier,
                      gain |-> 0]
    /\ UNCHANGED <<now, currentScore, comboCount, lastShootTime, hitLog>>

\* the wall clock moves on between two calls
Tick(d) ==
    /\ now + d <= MaxNow
    /\ now' = now + d
    /\ scoreEvent' = [op |-> "tick", gap |-> 0, updated |-> UpdatedSinceHit,
                      gameTime |-> scoreEvent.gameTime, base |-> 0, gain |-> 0]
    /\ UNCHANGED <<currentScore, scoreMultiplier, comboCount, lastShootTime, hitLog>>

ScoreInit ==
    /\ now = 0
    /\ currentScore = 0
    /\ scoreMultiplier = 10
    /\ comboCount = 0
    /\ lastShootTime = 0
    /\ hitLog = <<>>
    /\ scoreEvent = [op |-> "init", gap |-> 0, updated |-> FALSE,
                     gameTime |-> 0, base |-> 0, gain |-> 0]

----------------------------------------------------------------------------
(* GameScene combat resolution, src/js/scenes/gameScene.js, with            *)
(* BulletManager, src/js/managers/bulletManager.js.  Lengths in units of    *)
(* 1/UnitsPerPixel pixel as for the obstacles.                              *)

BULLET_WIDTH  == 8
BULLET_HEIGHT == 4
maxBullets    == 50
BULLET_SPEED  == 400
CANVAS_HEIGHT == 400
maxLifeTime   == 3000                  \* 3.0 s, in ms
maxDistance   == CANVAS_WIDTH + 100    \* pixels

MaxShots == 3     \* shots fired per session in the model
MaxLiveBullets == 2   \* the model adds no bullet to a collection this long

\* where a shot may be when it is created: inside the path of the floating
\* obstacles one update after their spawn, or below it
ShotPositions ==
    {[x |-> U(CANVAS_WIDTH) - 2000 + U(2), y |-> U(FLOATING_OBSTACLE_MIN_Y) + U(2)],
     [x |-> U(CANVAS_WIDTH) - 2000 + U(2), y |-> U(300)]}

\* new Bullet(x, y, 1), or a pooled bullet after initializeBullet;
\* poolId is the pool object it is, -1 for a bullet made with new; age is the
\* sum of the deltaTimes BulletManager.update was given since the bullet was
\* added (not a field of the code)
NewBullet(x, y, poolId) ==
    [x |-> x, y |-> y, width |-> U(BULLET_WIDTH), height |-> U(BULLET_HEIGHT),
     active |-> TRUE, poolId |-> poolId, startX |-> x, lifeTime |-> 0, age |-> 0]

\* Bullet.isOffScreen()
isOffScreen(b) ==
    \/ b.x + b.width < 0
    \/ b.x > U(CANVAS_WIDTH)
    \/ b.y + b.height < 0
    \/ b.y > U(CANVAS_HEIGHT)

\* the distance test of Bullet.update: traveledDistance >= maxDistance
reachedMaxDistance(b) ==
    (IF b.x >= b.startX THEN b.x - b.startX ELSE b.startX - b.x) >= U(maxDistance)

\* Bullet.update that only ages and moves the bullet, with none of its three
\* destroy() calls
Bullet_update_MoveOnly(b, dt) ==
    [b EXCEPT !.lifeTime = b.lifeTime + dt,
              !.x = b.x + (BULLET_SPEED * UnitsPerPixel * dt) \div 1000]

\* Bullet.update(deltaTime), direction 1; dt in ms
Bullet_update(b, dt) ==
    LET life  == b.lifeTime + dt
        aged  == [b EXCEPT !.lifeTime = life]
        moved == [aged EXCEPT !.x = b.x + (BULLET_SPEED * UnitsPerPixel * dt) \div 1000]
    IN  IF life >= maxLifeTime THEN [aged EXCEPT !.active = FALSE]
        ELSE IF reachedMaxDistance(moved) THEN [moved EXCEPT !.active = FALSE]
        ELSE IF isOffScreen(moved) THEN [moved EXCEPT !.active = FALSE]
        ELSE moved

\* Bullet.setMaxDistance(distance): the maxDistance it stores (px)
Bullet_setMaxDistance(distance) ==
    call' = [op |-> "setMaxDistance", input |-> distance,
             stored |-> Max(0, distance)]

\* the fields of the bullet pool that release() reads and writes
PoolState ==
    [pool |-> pool, active |-> active, poolNamed |-> poolNamed,
     statsCurrentActive |-> statsCurrentActive, statsPoolSize |-> statsPoolSize,
     strays |-> strayReleases]

\* OptimizedObjectPool.release(obj) as a function of the pool's fields
released(P, obj) ==
    LET index == IndexOf(P.active, obj)
        a1    == IF index # 0 THEN RemoveAt(P.active, index) ELSE P.active
        P1    == [P EXCEPT !.active = a1,
                           !.strays = IF index = 0 THEN @ + 1 ELSE @]
    IN  IF obj \notin P.poolNamed THEN P1
        ELSE IF Len(P.pool) >= MaxSize
             THEN [P1 EXCEPT !.poolNamed = @ \ {obj}]
             ELSE [P1 EXCEPT !.pool = Append(@, obj),
                             !.statsCurrentActive = Len(a1),
                             !.statsPoolSize = Len(P.pool) + 1]

\* the forEach of removeInactiveBullets: release every retired bullet in order
RECURSIVE releasedAll(_, _)
releasedAll(P, bs) ==
    IF bs = <<>> THEN P
    ELSE releasedAll(released(P, Head(bs).poolId), Tail(bs))

\* removeInactiveBullets() keeping the retired bullets in the collection
removeInactiveBullets_KeepAll(bs) == bs

\* removeInactiveBullets(): the collection after the filter
removeInactiveBullets(bs) == SelectSeq(bs, LAMBDA b : b.active)

\* BulletManager.update(deltaTime); dt in ms.  forceCleanup() is not reached:
\* addBullet never lets the collection grow beyond maxBullets.
BulletManager_update(dt) ==
    LET older   == [i \in 1..Len(bullets) |-> [bullets[i] EXCEPT !.age = @ + dt]]
        moved   == [i \in 1..Len(bullets) |->
                       IF older[i].active THEN Bullet_update(older[i], dt)
                       ELSE older[i]]
        retired == SelectSeq(moved, LAMBDA b : ~b.active)
        P       == releasedAll(PoolState, retired)
    IN  /\ bullets' = removeInactiveBullets(moved)
        /\ pool' = P.pool
        /\ active' = P.active
        /\ poolNamed' = P.poolNamed
        /\ statsCurrentActive' = P.statsCurrentActive
        /\ statsPoolSize' = P.statsPoolSize
        /\ strayReleases' = P.strays
        /\ lastOp' = IF retired = <<>> THEN lastOp
                     ELSE [op |-> "release", obj |-> retired[Len(retired)].poolId]
        /\ bulletEvent' = [op |-> "update", before |-> Len(bullets),
                           retired |-> Len(retired), returned |-> 0,
                           lives |-> [i \in 1..Len(retired) |-> retired[i].lifeTime]]
        /\ UNCHANGED <<created, statsPeakUsage>>

\* BulletManager.addBullet(x, y, 1); returned is the _poolId of the bullet
\* handed back, -1 for a bullet made with new, -2 for null
BulletManager_addBullet(x, y) ==
    IF Len(bullets) >= currentMaxBullets
    THEN /\ UNCHANGED <<allPoolVars, bullets>>
         /\ bulletEvent' = [op |-> "addBullet", before |-> Len(bullets),
                            retired |-> 0, returned |-> -2, lives |-> <<>>]
    ELSE /\ OptimizedObjectPool_get
         /\ bullets' = Append(bullets, NewBullet(x, y, lastOp'.obj))
         /\ bulletEvent' = [op |-> "addBullet", before |-> Len(bullets),
                            retired |-> 0, returned |-> lastOp'.obj,
                            lives |-> <<>>]

\* BulletManager.removeBullet(bullet) for bullets[b]: the objectPoolManager
\* it releases to holds no pool named 'bullets'
BulletManager_removeBullet(b) ==
    /\ b \in 1..Len(bullets)
    /\ bullets' = RemoveAt(bullets, b)
    /\ bulletEvent' = [op |-> "removeBullet", before |-> Len(bullets),
                       retired |-> 1, returned |-> 0, lives |-> <<>>]
    /\ UNCHANGED allPoolVars

\* forceCleanup() taking the excess from the end of the collection
forceCleanup_Newest(bs, limit) ==
    IF Len(bs) - limit <= 0 THEN bs ELSE SubSeq(bs, 1, limit)

\* forceCleanup(): bullets.splice(0, excessCount); the objectPoolManager the
\* removed bullets are released to holds no pool named 'bullets'
forceCleanup(bs, limit) ==
    LET excessCount == Len(bs) - limit
    IN  IF excessCount <= 0 THEN bs ELSE SubSeq(bs, excessCount + 1, Len(bs))

\* BulletManager.setMaxBullets(maxCount)
BulletManager_setMaxBullets(maxCount) ==
    LET limit == Max(1, maxCount)
        kept  == IF Len(bullets) > limit THEN forceCleanup(bullets, limit)
                 ELSE bullets
    IN  /\ currentMaxBullets' = limit
        /\ bullets' = kept
        /\ bulletEvent' = [op |-> "setMaxBullets", before |-> Len(bullets),
                           retired |-> Len(bullets) - Len(kept), returned |-> 0,
                           lives |-> <<>>, maxCount |-> maxCount]
        /\ UNCHANGED allPoolVars

\* BulletManager.clearAllBullets()
BulletManager_clearAllBullets ==
    /\ bullets' = <<>>
    /\ bulletEvent' = [op |-> "clearAllBullets", before |-> Len(bullets),
                       retired |-> Len(bullets), returned |-> 0, lives |-> <<>>]
    /\ UNCHANGED allPoolVars

\* handlePlayerShoot(shootInfo): addBullet, then the shot is counted if a
\* bullet came back
GameScene_handlePlayerShoot(x, y) ==
    /\ shootingStats.shotsFired < MaxShots
    /\ BulletManager_addBullet(x, y)
    /\ shootingStats' = IF bulletEvent'.returned # -2
                        THEN [shootingStats EXCEPT !.shotsFired = @ + 1]
                        ELSE shootingStats
    /\ hitEvent' = [op |-> "shoot", b |-> 0, i |-> 0, type |-> "none",
                    healthBefore |-> 0, destroyed |-> FALSE]

\* the pairs the collision system reports to the 'bullet-obstacle' callback:
\* an active projectile overlapping an active shootable floating obstacle
checkBulletObstacleCollisions(bs, fobs) ==
    {<<b, i>> \in (1..Len(bs)) \X (1..Len(fobs)) :
        /\ bs[b].active
        /\ fobs[i].active
        /\ fobs[i].canBeShot
        /\ checkRectangleCollision(bs[b], fobs[i])}

\* handleBulletObstacleCollision({bullet, obstacle}) for bullets[b] and
\* floatingObstacles[i]
GameScene_handleBulletObstacleCollision(b, i) ==
    LET o  == floatingObstacles[i]
        o1 == takeDamage(o)
    IN  /\ <<b, i>> \in checkBulletObstacleCollisions(bullets, floatingObstacles)
        /\ BulletManager_removeBullet(b)
        /\ hitEvent' = [op |-> "hit", b |-> b, i |-> i, type |-> o.type,
                        healthBefore |-> o.health,
                        destroyed |-> takeDamageDestroys(o)]
        /\ IF takeDamageDestroys(o)
           THEN /\ floatingObstacles' = RemoveAt(floatingObstacles, i)
                /\ ScoreSystem_addShootingScore(o.type)
                /\ shootingStats' =
                       [shootingStats EXCEPT !.shotsHit = @ + 1,
                                             !.maxCombo = Max(@, comboCount')]
           ELSE /\ floatingObstacles' = [floatingObstacles EXCEPT ![i] = o1]
                /\ shootingStats' = [shootingStats EXCEPT !.shotsHit = @ + 1]
                /\ UNCHANGED scoreVars
        /\ UNCHANGED <<obstacles, lastSpawnTime, nextSpawnTime,
                       lastFloatingSpawnTime, nextFloatingSpawnTime,
                       poolAvailable, obstaclePoolVars, spawnEvent>>

CombatInit ==
    /\ bullets = <<>>
    /\ shootingStats = [shotsFired |-> 0, shotsHit |-> 0, maxCombo |-> 0]
    /\ hitEvent = [op |-> "init", b |-> 0, i |-> 0, type |-> "none",
                   healthBefore |-> 0, destroyed |-> FALSE]
    /\ bulletEvent = [op |-> "init", before |-> 0, retired |-> 0, returned |-> 0,
                      lives |-> <<>>]

----------------------------------------------------------------------------
(* Player, src/js/entities/player.js, with the gravity of PhysicsSystem,     *)
(* src/js/objectPool.js.  The scene and the engine count time in ticks of   *)
(* 1/TicksPerSecond s, in which 1/30 s and every whole millisecond are       *)
(* whole.  The player's velocity is kept in 1/VelocityUnits pixel per second *)
(* and its lengths in 1/PlayerUnitsPerPixel pixel, so that                  *)
(* velocityY += GRAVITY * deltaTime and y += velocityY * deltaTime are       *)
(* exact.                                                                   *)

TicksPerSecond == 3000
TicksPerMs     == TicksPerSecond \div 1000
VelocityUnits  == 150
PlayerUnitsPerPixel == VelocityUnits * TicksPerSecond

GRAVITY         == 980
JUMP_FORCE      == -400
PLAYER_WIDTH    == 24
PLAYER_HEIGHT   == 40
PLAYER_CENTER_X == 400
SHOOT_COOLDOWN  == 300

TimeOrigin == 1000000   \* Date.now() when performance.now() was 0 (ms)

P(px) == px * PlayerUnitsPerPixel

\* a deltaTime in ticks as the whole milliseconds the obstacle, bullet and
\* score models count in
Ms(dt) == dt \div TicksPerMs

\* a length of the obstacle grid in player units
InPlayerUnits(u) == u * (PlayerUnitsPerPixel \div UnitsPerPixel)

\* a length in player units on the obstacle grid, rounded down
InObstacleUnits(v) == v \div (PlayerUnitsPerPixel \div UnitsPerPixel)

\* Date.now()
DateNow == TimeOrigin + now

\* new Player(CENTER_X - WIDTH / 2, GROUND_Y - HEIGHT)
NewPlayer ==
    [x |-> P(PLAYER_CENTER_X) - P(PLAYER_WIDTH) \div 2,
     y |-> P(GROUND_Y) - P(PLAYER_HEIGHT),
     width |-> P(PLAYER_WIDTH),
     height |-> P(PLAYER_HEIGHT),
     velocityY |-> 0,
     active |-> TRUE,
     isGrounded |-> TRUE,
     canJump |-> TRUE,
     jumpCooldown |-> 0,
     canShoot |-> TRUE,
     shootCooldown |-> 0,
     lastShootTime |-> 0]

\* PhysicsSystem.checkGroundCollision(entity)
checkGroundCollision(e) == e.y + e.height >= P(GROUND_Y)

\* PhysicsSystem.applyGravity(entity, deltaTime)
applyGravity(e, dt) ==
    IF ~checkGroundCollision(e)
    THEN [e EXCEPT !.velocityY = @ + (GRAVITY * VelocityUnits * dt) \div TicksPerSecond,
                   !.isGrounded = FALSE]
    ELSE IF e.velocityY > 0
         THEN [e EXCEPT !.velocityY = 0,
                        !.y = P(GROUND_Y) - e.height,
                        !.isGrounded = TRUE]
         ELSE e

\* Player.checkBounds()
checkBounds(e) ==
    LET e1 == IF e.y < 0
              THEN [e EXCEPT !.y = 0, !.velocityY = Max(0, @)]
              ELSE e
    IN  IF e1.y + e1.height > P(CANVAS_HEIGHT)
        THEN [e1 EXCEPT !.y = P(CANVAS_HEIGHT) - e1.height, !.velocityY = 0]
        ELSE e1

\* Player.updateJumpCooldown(deltaTime)
updateJumpCooldown(e, dt) ==
    LET c == IF e.jumpCooldown > 0 THEN e.jumpCooldown - dt ELSE e.jumpCooldown
    IN  [e EXCEPT !.jumpCooldown = c,
                  !.canJump = IF e.isGrounded /\ c <= 0 THEN TRUE ELSE @]

\* Player.updateShootCooldown(deltaTime)
updateShootCooldown(e, dt) ==
    LET c == IF e.shootCooldown > 0 THEN e.shootCooldown - dt ELSE e.shootCooldown
    IN  [e EXCEPT !.shootCooldown = c,
                  !.canShoot = IF c <= 0 THEN TRUE ELSE @]

\* Player.update(deltaTime); the animation frame is drawing state
Player_update(e, dt) ==
    LET e1 == applyGravity(e, dt)
        e2 == [e1 EXCEPT !.y = @ + e1.velocityY * dt]
        e3 == checkBounds(e2)
        e4 == updateJumpCooldown(e3, dt)
    IN  updateShootCooldown(e4, dt)

\* Player.jump() applying the impulse in every state
Player_jump_Always(e) ==
    [e EXCEPT !.velocityY = JUMP_FORCE * VelocityUnits,
              !.isGrounded = FALSE,
              !.canJump = FALSE,
              !.jumpCooldown = TicksPerSecond \div 10]

\* Player.jump() with PhysicsSystem.applyJumpForce
Player_jump(e) ==
    IF e.isGrounded /\ e.canJump
    THEN [e EXCEPT !.velocityY = JUMP_FORCE * VelocityUnits,
                   !.isGrounded = FALSE,
                   !.canJump = FALSE,
                   !.jumpCooldown = TicksPerSecond \div 10]
    ELSE e

\* the test of shoot() and canShootNow() without the comparison of Date.now()
canShootNow_FlagOnly(e) == e.canShoot

\* Player.canShootNow()
canShootNow(e) == e.canShoot /\ DateNow - e.lastShootTime >= SHOOT_COOLDOWN

\* Player.setShootCooldown(cooldownTime): the shootCooldownTime it stores (ms)
Player_setShootCooldown(cooldownTime) ==
    call' = [op |-> "setShootCooldown", input |-> cooldownTime,
             stored |-> cooldownTime]

\* Player.getShootPosition(), on the grid of the bullets
getShootPosition(e) ==
    [x |-> InObstacleUnits(e.x + e.width),
     y |-> InObstacleUnits(e.y + e.height \div 2)]

----------------------------------------------------------------------------
(* GameScene session control, src/js/scenes/gameScene.js, with               *)
(* CollisionSystem, PhysicsSystem and ScoreSystem.saveHighScore              *)

MaxGameTime == 15600   \* ticks (5.2 s) a session of the model is stepped
MaxSessions == 2                   \* sessions started in the model

worldVars == <<allPoolVars, spawnVars, scoreVars, combatVars>>

\* getBounds() of an obstacle, in player units
ObstacleBounds(o) ==
    [x |-> InPlayerUnits(o.x), y |-> InPlayerUnits(o.y),
     width |-> InPlayerUnits(o.width), height |-> InPlayerUnits(o.height)]

\* ObstacleManager.getObstacles(): the active ground obstacles
getObstacles(obs) == SelectSeq(obs, LAMBDA o : o.active)

\* getNearbyObstacles with a window of 30 instead of 100
isNearby_Narrow(e, o) ==
    LET playerCenterX   == e.x + e.width \div 2
        obstacleCenterX == InPlayerUnits(o.x) + InPlayerUnits(o.width) \div 2
    IN  /\ o.active
        /\ playerCenterX - obstacleCenterX <= P(30)
        /\ obstacleCenterX - playerCenterX <= P(30)

\* PhysicsSystem.getNearbyObstacles: the filter on the centre distance
isNearby(e, o) ==
    LET playerCenterX   == e.x + e.width \div 2
        b               == ObstacleBounds(o)
        obstacleCenterX == b.x + b.width \div 2
        distance        == IF playerCenterX >= obstacleCenterX
                           THEN playerCenterX - obstacleCenterX
                           ELSE obstacleCenterX - playerCenterX
    IN  o.active /\ distance <= P(100)

\* PhysicsSystem.checkPlayerObstacleCollision: whether a collision is returned
checkPlayerObstacleCollision(e, obs) ==
    \E i \in 1..Len(obs) :
        /\ isNearby(e, obs[i])
        /\ obs[i].active
        /\ checkRectangleCollision(e, ObstacleBounds(obs[i]))

\* PhysicsSystem.checkPlayerObstacleCollision(player, obstacles) called on
\* drawn arguments: whether it returns a collision
PhysicsSystem_checkPlayerObstacleCollision(e, obs) ==
    call' = [op |-> "checkPlayerObstacleCollision", player |-> e, obstacles |-> obs,
             returned |-> checkPlayerObstacleCollision(e, obs)]

\* CollisionSystem.checkPlayerObstacleCollisions
checkPlayerObstacleCollisions(e, obs) ==
    e.active /\ checkPlayerObstacleCollision(e, obs)

\* null as a player or as an entry of an obstacle array
Null == [null |-> TRUE]
isNull(e) == "null" \in DOMAIN e

\* PhysicsSystem.checkPlayerObstacleCollision: the index of the obstacle of the
\* collision it returns, 0 when it returns null
collidingObstacle(e, obs) ==
    LET hit(i) == /\ isNearby(e, obs[i])
                  /\ obs[i].active
                  /\ checkRectangleCollision(e, ObstacleBounds(obs[i]))
    IN  IF \E i \in 1..Len(obs) : hit(i)
        THEN CHOOSE i \in 1..Len(obs) : hit(i) /\ \A j \in 1..(i - 1) : ~hit(j)
        ELSE 0

\* CollisionSystem.checkPlayerObstacleCollisions(player, obstacles) on arrays
\* that may hold null: `!player || !player.active` returns null; otherwise the
\* filter callback of getNearbyObstacles reads obstacle.active of every entry,
\* which is a TypeError for a null entry, and nothing catches it
CollisionSystem_checkPlayerObstacleCollisions(e, obs) ==
    call' = [op |-> "checkPlayerObstacleCollisions", player |-> e, obstacles |-> obs,
             outcome |-> IF isNull(e) THEN "null"
                         ELSE IF ~e.active THEN "null"
                         ELSE IF \E i \in 1..Len(obs) : isNull(obs[i]) THEN "TypeError"
                         ELSE IF collidingObstacle(e, obs) # 0 THEN "collision"
                         ELSE "null",
             obstacle |-> IF isNull(e) THEN 0
                          ELSE IF ~e.active THEN 0
                          ELSE IF \E i \in 1..Len(obs) : isNull(obs[i]) THEN 0
                          ELSE collidingObstacle(e, obs)]

\* checkGameEndConditions(): the reason gameOver is called with, or "none"
checkGameEndConditions(e, obs) ==
    IF checkPlayerObstacleCollisions(e, getObstacles(obs)) THEN "collision"
    ELSE IF e.y > P(CANVAS_HEIGHT + 100) THEN "fall"
    ELSE IF e.x < -e.width THEN "outOfBounds"
    ELSE "none"

\* ScoreSystem.isNewHighScore()
isNewHighScore(score, high) == score > high

\* saveHighScore() overwriting the record with every final score
saveHighScore_Always(high, score) == score

\* ScoreSystem.saveHighScore(): highScore after the call
saveHighScore(high, score) == IF isNewHighScore(score, high) THEN score ELSE high

\* resetGame()
GameScene_resetGame ==
    /\ gameState' = "playing"
    /\ gameTime' = 0
    /\ shootingStats' = [shotsFired |-> 0, shotsHit |-> 0, maxCombo |-> 0]
    /\ player' = [player EXCEPT !.x = P(PLAYER_CENTER_X) - P(PLAYER_WIDTH) \div 2,
                                !.y = P(GROUND_Y) - P(PLAYER_HEIGHT),
                                !.width = P(PLAYER_WIDTH),
                                !.height = P(PLAYER_HEIGHT),
                                !.velocityY = 0,
                                !.isGrounded = TRUE]
    /\ ObstacleManager_clearAllObstacles
    /\ BulletManager_clearAllBullets
    /\ ScoreSystem_reset
    /\ sceneEvent' = [op |-> "resetGame", reason |-> "none",
                      sessions |-> sceneEvent.sessions + 1]
    /\ UNCHANGED <<highScore, hitEvent>>

\* SceneManager.switchScene(name); GameScene.onEnter calls resetGame
SceneManager_switchScene(name) ==
    /\ currentScene' = name
    /\ IF name = "game"
       THEN GameScene_resetGame
       ELSE /\ sceneEvent' = [sceneEvent EXCEPT !.op = "switchScene"]
            /\ UNCHANGED <<worldVars, gameState, gameTime, player, highScore>>

\* GameScene.update(deltaTime) up to its last statement, the call of
\* checkBulletCollisions(); dt in ticks.  gameOver(reason) runs inside
\* checkGameEndConditions, through the 'player-obstacle' callback, and its
\* onGameOverCallback switches to the game-over scene.
GameScene_updateToCollisions(dt, D) ==
    IF gameState # "playing"
    THEN /\ sceneEvent' = [sceneEvent EXCEPT !.op = "update_returned"]
         /\ UNCHANGED <<worldVars, gameState, gameTime, player, highScore,
                        currentScene>>
    ELSE /\ gameTime' = gameTime + dt
         /\ player' = Player_update(player, dt)
         /\ ObstacleManager_update(Ms(dt), D)
         /\ BulletManager_update(Ms(dt))
         /\ ScoreSystem_update(Ms(dt), Ms(gameTime'))
         /\ LET reason == checkGameEndConditions(player', obstacles')
            IN  /\ gameState' = IF reason # "none" THEN "game_over" ELSE gameState
                /\ highScore' = IF reason # "none"
                                THEN saveHighScore(highScore, currentScore')
                                ELSE highScore
                /\ currentScene' = IF reason # "none" THEN "gameOver"
                                   ELSE currentScene
                /\ sceneEvent' = [op |-> "update", reason |-> reason,
                                  sessions |-> sceneEvent.sessions]
         /\ UNCHANGED <<shootingStats, hitEvent>>

\* checkBulletCollisions(): the pairs whose 'bullet-obstacle' callback,
\* GameScene_handleBulletObstacleCollision, is due
checkBulletCollisions(bs, fobs) == checkBulletObstacleCollisions(bs, fobs)

\* GameScene.update(deltaTime) in which checkBulletCollisions() finds no pair
GameScene_update(dt, D) ==
    /\ GameScene_updateToCollisions(dt, D)
    /\ gameState = "playing" =>
           checkBulletCollisions(bullets', floatingObstacles') = {}

\* the callbacks of an update's checkBulletCollisions() are still to run
inCheckBulletCollisions ==
    /\ sceneEvent.op = "update"
    /\ checkBulletCollisions(bullets, floatingObstacles) # {}

\* gameOver(reason) saving the high score and calling onGameOverCallback on
\* every call
GameScene_gameOver_Unguarded(reason) ==
    /\ gameState' = "game_over"
    /\ highScore' = saveHighScore(highScore, currentScore)
    /\ currentScene' = "gameOver"
    /\ sceneEvent' = [op |-> "gameOver", reason |-> reason,
                      sessions |-> sceneEvent.sessions]
    /\ call' = [op |-> "gameOver", reason |-> reason, saveHighScore |-> TRUE,
                onGameOverCallback |-> TRUE]
    /\ UNCHANGED <<worldVars, gameTime, player>>

\* gameOver(reason) called on its own; the call records whether it went on to
\* saveHighScore() and to onGameOverCallback, which switches to the game-over
\* scene
GameScene_gameOver(reason) ==
    IF gameState = "game_over"
    THEN /\ sceneEvent' = [sceneEvent EXCEPT !.op = "gameOver"]
         /\ call' = [op |-> "gameOver", reason |-> reason, saveHighScore |-> FALSE,
                     onGameOverCallback |-> FALSE]
         /\ UNCHANGED <<worldVars, gameState, gameTime, player, highScore,
                        currentScene>>
    ELSE /\ gameState' = "game_over"
         /\ highScore' = saveHighScore(highScore, currentScore)
         /\ currentScene' = "gameOver"
         /\ sceneEvent' = [op |-> "gameOver", reason |-> reason,
                           sessions |-> sceneEvent.sessions]
         /\ call' = [op |-> "gameOver", reason |-> reason, saveHighScore |-> TRUE,
                     onGameOverCallback |-> TRUE]
         /\ UNCHANGED <<worldVars, gameTime, player>>

\* Player.shoot() and the shoot callback handlePlayerShoot(getShootPosition())
Player_shoot ==
    IF canShootNow(player)
    THEN /\ player' = [player EXCEPT !.lastShootTime = DateNow,
                                     !.shootCooldown = SHOOT_COOLDOWN * TicksPerMs,
                                     !.canShoot = FALSE]
         /\ GameScene_handlePlayerShoot(getShootPosition(player).x,
                                        getShootPosition(player).y)
    ELSE UNCHANGED <<player, allPoolVars, combatVars>>

\* pauseGame()
GameScene_pauseGame ==
    gameState' = IF gameState = "playing" THEN "paused" ELSE gameState

\* resumeGame()
GameScene_resumeGame ==
    gameState' = IF gameState = "paused" THEN "playing" ELSE gameState

\* restartGame()
GameScene_restartGame == GameScene_resetGame /\ UNCHANGED currentScene

\* GameScene.handleInput(inputHandler) when key is the one key that is down
\* and just pressed ("none": no key)
GameScene_handleInput(key) ==
    IF (gameState \in {"paused", "game_over"} /\ key = "KeyR")
       \/ (gameState = "game_over" /\ key = "Space")
    THEN GameScene_restartGame
    ELSE IF gameState = "game_over" /\ key = "Escape"
    THEN SceneManager_switchScene("menu")       \* returnToMenu()
    ELSE
    /\ sceneEvent' = [sceneEvent EXCEPT !.op = "handleInput"]
    /\ IF gameState = "playing" /\ key = "Space"
       THEN /\ player' = Player_jump(player)
            /\ UNCHANGED <<worldVars, gameState, gameTime, highScore, currentScene>>
       ELSE IF gameState = "playing" /\ key = "KeyX"
       THEN /\ Player_shoot
            /\ UNCHANGED <<spawnVars, scoreVars, gameState, gameTime, highScore,
                           currentScene>>
       ELSE IF gameState = "playing" /\ key = "Escape"
       THEN /\ GameScene_pauseGame
            /\ UNCHANGED <<worldVars, gameTime, player, highScore, currentScene>>
       ELSE IF gameState = "paused" /\ key \in {"Space", "Escape"}
       THEN /\ GameScene_resumeGame
            /\ UNCHANGED <<worldVars, gameTime, player, highScore, currentScene>>
       ELSE UNCHANGED <<worldVars, gameState, gameTime, player, highScore,
                        currentScene>>

\* the handleInput of the current scene: MenuScene and GameOverScene start a
\* session on Space (GameOverScene calls resetGame before switchScene, which
\* resets again), GameOverScene returns to the menu on Escape
Scene_handleInput(key) ==
    IF currentScene = "game" THEN GameScene_handleInput(key)
    ELSE IF key = "Space" THEN SceneManager_switchScene("game")
    ELSE IF currentScene = "gameOver" /\ key = "Escape"
    THEN SceneManager_switchScene("menu")
    ELSE /\ sceneEvent' = [sceneEvent EXCEPT !.op = "handleInput"]
         /\ UNCHANGED <<worldVars, gameState, gameTime, player, highScore,
                        currentScene>>

\* InputHandler.keyMap, src/js/input.js
keyMap ==
    ("Space" :> 32) @@ ("Enter" :> 13) @@ ("Escape" :> 27) @@ ("KeyR" :> 82)
        @@ ("KeyQ" :> 81)

\* InputHandler.isKeyJustPressed(key) for a key name, when the keys whose
\* keydown event came since the last query, and that are still down, have the
\* keyCodes in down: a name that keyMap lacks gives the keyCode undefined,
\* which no keyboard event has
isKeyJustPressed(key, down) == key \in DOMAIN keyMap /\ keyMap[key] \in down

\* the names GameScene.handleInput asks the input handler for
QueriedKeys == {"Space", "KeyX", "ControlLeft", "Escape", "KeyR"}

\* the key handleInput finds pressed after the keydown event of keyCode
justPressedKey(keyCode) ==
    IF \E key \in QueriedKeys : isKeyJustPressed(key, {keyCode})
    THEN CHOOSE key \in QueriedKeys : isKeyJustPressed(key, {keyCode})
    ELSE "none"

\* the keydown event of keyCode (the Q key, 81, calls handleShootInput, for
\* which no shoot callback is registered) followed by the frame's handleInput
\* of the current scene with the InputHandler
Scene_handleKeydown(keyCode) ==
    /\ Scene_handleInput(justPressedKey(keyCode))
    /\ call' = [op |-> "keydown", keyCode |-> keyCode]

\* the record loadHighScore() finds when the score system is built: none is
\* stored before the first session
StoredHighScores == {0}

SceneInit ==
    /\ gameState = "playing"
    /\ gameTime = 0
    /\ player = NewPlayer
    /\ highScore \in StoredHighScores
    /\ currentScene = "menu"
    /\ sceneEvent = [op |-> "init", reason |-> "none", sessions |-> 0]

----------------------------------------------------------------------------
(* GameEngine, src/js/gameEngine.js, with SystemIntegration,                 *)
(* src/js/performanceMonitor.js, and SceneManager,                           *)
(* src/js/managers/sceneManager.js.  gameLoop is followed call by call:      *)
(* pending holds the calls the running frame still has to make, and no       *)
(* other operation runs until it is empty.                                   *)

MaxFrames == 5    \* gameLoop frames run in the model

\* Math.min(this.deltaTime, 1/30) without the limit
clampDeltaTime_Unlimited(d) == d

\* Math.min(this.deltaTime, 1/30), in ticks
clampDeltaTime(d) == Min(d, TicksPerSecond \div 30)

\* start()
GameEngine_start ==
    /\ pending = <<>>
    /\ ~isRunning
    /\ isRunning' = TRUE
    /\ lastTime' = now * TicksPerMs
    /\ UNCHANGED <<isPaused, deltaTime, pending, frame>>

\* pause()
GameEngine_pause ==
    /\ pending = <<>>
    /\ isPaused' = TRUE
    /\ UNCHANGED <<isRunning, lastTime, deltaTime, pending, frame>>

\* resume()
GameEngine_resume ==
    /\ pending = <<>>
    /\ isPaused' = FALSE
    /\ lastTime' = now * TicksPerMs
    /\ UNCHANGED <<isRunning, deltaTime, pending, frame>>

\* gameLoop calling update whether or not the engine is paused
gameLoopCalls_AlwaysUpdate(paused) ==
    <<"updateSystems", "handleInput", "sceneManager.update", "render">>

\* the calls gameLoop makes after the clamp: update(deltaTime), which is three
\* calls, unless paused, then render()
gameLoopCalls(paused) ==
    IF ~paused
    THEN <<"updateSystems", "handleInput", "sceneManager.update", "render">>
    ELSE <<"render">>

\* gameLoop(currentTime), up to the test of isPaused; elapsed is the real time
\* (ms) since the clock was last read
GameEngine_gameLoop(elapsed) ==
    /\ pending = <<>>
    /\ isRunning
    /\ now' = now + elapsed
    /\ deltaTime' = clampDeltaTime(now' * TicksPerMs - lastTime)
    /\ lastTime' = now' * TicksPerMs
    /\ pending' = gameLoopCalls(isPaused)
    /\ frame' = [n |-> frame.n + 1, paused |-> isPaused, sceneUpdates |-> 0,
                 renders |-> 0, gameTime |-> gameTime,
                 playing |-> currentScene = "game" /\ gameState = "playing",
                 elapsed |-> now' * TicksPerMs - lastTime, key |-> "none"]
    /\ UNCHANGED <<isRunning, isPaused>>

\* SceneManager.update(deltaTime): the current scene's update.  MenuScene and
\* GameOverScene animate their own display only.
SceneManager_update(dt, D) ==
    /\ frame' = [frame EXCEPT
                    !.sceneUpdates = @ + 1,
                    !.playing = @ /\ currentScene = "game" /\ gameState = "playing"]
    /\ IF currentScene = "game"
       THEN GameScene_update(dt, D)
       ELSE /\ sceneEvent' = [sceneEvent EXCEPT !.op = "update_other"]
            /\ UNCHANGED <<worldVars, gameState, gameTime, player, highScore,
                           currentScene>>

\* GameEngine.update, first call: systemIntegration.updateSystems(deltaTime).
\* Of the systems in its update order, sceneManager is the registered one
\* whose update changes the simulation.
SystemIntegration_updateSystems(D) ==
    /\ pending # <<>> /\ Head(pending) = "updateSystems"
    /\ pending' = Tail(pending)
    /\ SceneManager_update(deltaTime, D)
    /\ UNCHANGED <<isRunning, isPaused, lastTime, deltaTime>>

\* GameEngine.update, second call: currentScene.handleInput(this.inputHandler)
GameEngine_handleInput(key) ==
    /\ pending # <<>> /\ Head(pending) = "handleInput"
    /\ pending' = Tail(pending)
    /\ Scene_handleInput(key)
    /\ frame' = [frame EXCEPT !.key = key]
    /\ UNCHANGED <<isRunning, isPaused, lastTime, deltaTime>>

\* GameEngine.update, third call: this.sceneManager.update(deltaTime)
GameEngine_updateScene(D) ==
    /\ pending # <<>> /\ Head(pending) = "sceneManager.update"
    /\ pending' = Tail(pending)
    /\ SceneManager_update(deltaTime, D)
    /\ UNCHANGED <<isRunning, isPaused, lastTime, deltaTime>>

\* render(): drawing only
GameEngine_render ==
    /\ pending # <<>> /\ Head(pending) = "render"
    /\ pending' = Tail(pending)
    /\ frame' = [frame EXCEPT !.renders = @ + 1]
    /\ UNCHANGED <<isRunning, isPaused, lastTime, deltaTime>>

EngineInit ==
    /\ isRunning = FALSE
    /\ isPaused = FALSE
    /\ lastTime = 0
    /\ deltaTime = 0
    /\ pending = <<>>
    /\ frame = [n |-> 0, paused |-> FALSE, sceneUpdates |-> 0, renders |-> 0,
                gameTime |-> 0, playing |-> FALSE, elapsed |-> 0, key |-> "none"]

----------------------------------------------------------------------------
(* Specifications *)

Init ==
    /\ PoolInit /\ SpawnInit /\ GridInit /\ ScoreInit /\ CombatInit
    /\ SceneInit /\ EngineInit
    /\ removedLast = 0
    /\ currentMaxBullets = maxBullets
    /\ call = [op |-> "none"]

NextPool ==
    \/ OptimizedObjectPool_get
           /\ UNCHANGED <<sceneVars, engineVars, spawnVars, gridVars, removedLast, currentMaxBullets, call, scoreVars, combatVars>>
    \/ \E obj \in {ForeignObject} \cup (1..created) :
           OptimizedObjectPool_release(obj)
               /\ UNCHANGED <<sceneVars, engineVars, spawnVars, gridVars, removedLast, currentMaxBullets, call, scoreVars, combatVars>>

SpecPool == Init /\ [][NextPool]_vars

\* SpecSpawn: every draw of the ground class, the floating class with the
\* draws that decide its spacing
SpawnDraws ==
    [types |-> GroundTypes, nsts |-> NextSpawnTimes,
     ftypes |-> FloatingTypes, ys |-> {U(FLOATING_OBSTACLE_MIN_Y)},
     fys |-> {0},
     nfsts |-> {(FLOATING_OBSTACLE_SPAWN_INTERVAL * 7) \div 10,
                (FLOATING_OBSTACLE_SPAWN_INTERVAL * 13) \div 10 - 1}]

NextSpawn ==
    \/ \E dt \in DeltaTimes :
           ObstacleManager_update(dt, SpawnDraws)
               /\ UNCHANGED <<sceneVars, engineVars, allPoolVars, gridVars, removedLast, currentMaxBullets, call, scoreVars, combatVars>>
    \/ ObstacleManager_clearAllObstacles
           /\ UNCHANGED <<sceneVars, engineVars, allPoolVars, gridVars, removedLast, currentMaxBullets, call, scoreVars, combatVars>>

SpecSpawn == Init /\ [][NextSpawn]_vars

\* SpecObjects: the obstacle manager on objects with identities, with the
\* calls that remove an obstacle, clear the collections, and release every
\* object of the pools
ObjectDraws ==
    [types |-> {"basic"}, nsts |-> {OBSTACLE_SPAWN_INTERVAL},
     ftypes |-> {"floating"}, ys |-> {U(FLOATING_OBSTACLE_MIN_Y)},
     fys |-> {0}, nfsts |-> {FLOATING_OBSTACLE_SPAWN_INTERVAL}]

LiveObjects ==
    {obstacles[i].id : i \in 1..Len(obstacles)}
        \cup {floatingObstacles[i].id : i \in 1..Len(floatingObstacles)}

NextObjects ==
    \/ \E dt \in DeltaTimes :
           ObstacleManager_updateObjects(dt, ObjectDraws)
               /\ UNCHANGED <<sceneVars, engineVars, allPoolVars, gridVars, removedLast, currentMaxBullets, call, scoreVars, combatVars>>
    \/ \E id \in LiveObjects :
           ObstacleManager_removeObstacle(id)
               /\ UNCHANGED <<sceneVars, engineVars, allPoolVars, gridVars, removedLast, currentMaxBullets, call, scoreVars, combatVars>>
    \/ ObstacleManager_clearAllObjects
           /\ UNCHANGED <<sceneVars, engineVars, allPoolVars, gridVars, removedLast, currentMaxBullets, call, scoreVars, combatVars>>
    \/ ObjectPoolManager_releaseAll
           /\ UNCHANGED <<sceneVars, engineVars, allPoolVars, gridVars, removedLast, currentMaxBullets, call, scoreVars, combatVars>>

SpecObjects == Init /\ [][NextObjects]_vars

\* SpecFloat: every draw of the floating class, the ground class with its
\* default type and interval
FloatDraws ==
    [types |-> {"basic"}, nsts |-> {OBSTACLE_SPAWN_INTERVAL},
     ftypes |-> FloatingTypes, ys |-> SpawnYs, fys |-> FloatingYs,
     nfsts |-> NextFloatingSpawnTimes]

NextFloat ==
    \/ \E dt \in DeltaTimes :
           ObstacleManager_update(dt, FloatDraws)
               /\ UNCHANGED <<sceneVars, engineVars, allPoolVars, gridVars, removedLast, currentMaxBullets, call, scoreVars, combatVars>>
    \/ ObstacleManager_clearAllObstacles
           /\ UNCHANGED <<sceneVars, engineVars, allPoolVars, gridVars, removedLast, currentMaxBullets, call, scoreVars, combatVars>>

SpecFloat == Init /\ [][NextFloat]_vars

\* SpecGrid: collision queries on entity snapshots
NextGrid ==
    \E es \in Snapshots :
        PhysicsSystem_checkCollisionsWithSpatialPartitioning(es)
            /\ UNCHANGED <<sceneVars, engineVars, allPoolVars, spawnVars, scoreVars,
                           combatVars, removedLast, currentMaxBullets, call>>

SpecGrid == Init /\ [][NextGrid]_vars

\* SpecScore: scoring events, frame updates and resets as the clock moves on
NextScore ==
    \/ \E d \in ClockSteps :
           Tick(d) /\ UNCHANGED <<sceneVars, engineVars, allPoolVars, spawnVars, gridVars, removedLast, currentMaxBullets, call, combatVars>>
    \/ \E type \in {"floating_large"} :
           ScoreSystem_addShootingScore(type)
               /\ UNCHANGED <<sceneVars, engineVars, allPoolVars, spawnVars, gridVars, removedLast, currentMaxBullets, call, combatVars>>
    \/ \E dt \in FrameTimes, gt \in GameTimes :
           ScoreSystem_update(dt, gt)
               /\ UNCHANGED <<sceneVars, engineVars, allPoolVars, spawnVars, gridVars, removedLast, currentMaxBullets, call, combatVars>>
    \/ ScoreSystem_reset
           /\ UNCHANGED <<sceneVars, engineVars, allPoolVars, spawnVars, gridVars, removedLast, currentMaxBullets, call, combatVars>>

SpecScore == Init /\ [][NextScore]_vars

\* SpecSession: every method that scores, called in any order with arguments
\* of either sign, between resets
MaxSessionScore == 60   \* no method scores beyond this in the model
PointInputs      == {-50, 0, 7}
MultiplierInputs == {-20, 5, 10, 25}
SessionDeltas    == {-1000, 1000}

NextSession ==
    \/ /\ currentScore <= MaxSessionScore
       /\ \/ \E points \in PointInputs : ScoreSystem_addScore(points)
          \/ \E dt \in SessionDeltas : ScoreSystem_addTimeScore(dt)
          \/ \E distance \in PointInputs : ScoreSystem_addDistanceScore(distance * 10)
          \/ ScoreSystem_addObstacleBonus
          \/ \E type \in {"basic"} : ScoreSystem_addShootingScore(type)
          \/ \E dt \in SessionDeltas, gt \in GameTimes : ScoreSystem_update(dt, gt)
       /\ UNCHANGED <<sceneVars, engineVars, allPoolVars, spawnVars, gridVars, removedLast, currentMaxBullets, call, combatVars>>
    \/ \E multiplier \in MultiplierInputs :
           /\ ScoreSystem_setScoreMultiplier(multiplier)
           /\ UNCHANGED <<sceneVars, engineVars, allPoolVars, spawnVars, gridVars, removedLast, currentMaxBullets, call, combatVars>>
    \/ ScoreSystem_reset
           /\ UNCHANGED <<sceneVars, engineVars, allPoolVars, spawnVars, gridVars, removedLast, currentMaxBullets, call, combatVars>>

SpecSession == Init /\ [][NextSession]_vars

\* SpecFormula: scoring events of every obstacle kind at session times that
\* reach each step of the time multiplier used here, and its cap
FormulaGameTimes == {0, 30000, 120000, 390000, 600000, 900000}

AllTypes == GroundTypes \cup FloatingTypes

NextFormula ==
    \/ \E type \in AllTypes :
           ScoreSystem_addShootingScore(type)
               /\ UNCHANGED <<sceneVars, engineVars, allPoolVars, spawnVars, gridVars, removedLast, currentMaxBullets, call, combatVars>>
    \/ \E gt \in FormulaGameTimes :
           /\ gt >= scoreEvent.gameTime
           /\ ScoreSystem_update(16, gt)
           /\ UNCHANGED <<sceneVars, engineVars, allPoolVars, spawnVars, gridVars, removedLast, currentMaxBullets, call, combatVars>>
    \/ ScoreSystem_reset
           /\ UNCHANGED <<sceneVars, engineVars, allPoolVars, spawnVars, gridVars, removedLast, currentMaxBullets, call, combatVars>>

SpecFormula == Init /\ [][NextFormula]_vars

\* SpecCombat: obstacles spawn and drift, the player shoots, hits are resolved
CombatDraws ==
    [types |-> {"basic"}, nsts |-> {OBSTACLE_SPAWN_INTERVAL},
     ftypes |-> FloatingTypes, ys |-> {U(FLOATING_OBSTACLE_MIN_Y)},
     fys |-> {0}, nfsts |-> {FLOATING_OBSTACLE_SPAWN_INTERVAL}]

NextCombat ==
    \/ ObstacleManager_update(2000, CombatDraws)
           /\ UNCHANGED <<sceneVars, engineVars, allPoolVars, gridVars, removedLast, currentMaxBullets, call, scoreVars, combatVars>>
    \/ \E p \in ShotPositions :
           GameScene_handlePlayerShoot(p.x, p.y)
               /\ UNCHANGED <<sceneVars, engineVars, spawnVars, gridVars, removedLast, currentMaxBullets, call, scoreVars>>
    \/ \E b \in 1..Len(bullets), i \in 1..Len(floatingObstacles) :
           GameScene_handleBulletObstacleCollision(b, i)
               /\ UNCHANGED <<sceneVars, engineVars, allPoolVars, gridVars, removedLast, currentMaxBullets, call>>
    \/ Tick(3001) /\ UNCHANGED <<sceneVars, engineVars, allPoolVars, spawnVars, gridVars, removedLast, currentMaxBullets, call, combatVars>>

SpecCombat == Init /\ [][NextCombat]_vars

\* SpecBullets: the bullet manager on its own; every bullet is fired from the
\* muzzle of a player standing on the ground; update is given 0.5 s, or a
\* whole maxLifeTime at once
BulletDeltaTimes == {500, 3000}

NextBullets ==
    \/ /\ Len(bullets) < MaxLiveBullets
       /\ BulletManager_addBullet(getShootPosition(NewPlayer).x,
                                  getShootPosition(NewPlayer).y)
       /\ UNCHANGED <<shootingStats, hitEvent, spawnVars, gridVars, removedLast, currentMaxBullets, call, scoreVars,
                      sceneVars, engineVars>>
    \/ \E dt \in BulletDeltaTimes :
           /\ BulletManager_update(dt)
           /\ strayReleases' <= MaxStray
           /\ UNCHANGED <<shootingStats, hitEvent, spawnVars, gridVars, removedLast, currentMaxBullets, call, scoreVars,
                          sceneVars, engineVars>>
    \/ \E b \in 1..Len(bullets) :
           /\ BulletManager_removeBullet(b)
           /\ UNCHANGED <<shootingStats, hitEvent, spawnVars, gridVars, removedLast, currentMaxBullets, call, scoreVars,
                          sceneVars, engineVars>>
    \/ /\ BulletManager_clearAllBullets
       /\ UNCHANGED <<shootingStats, hitEvent, spawnVars, gridVars, removedLast, currentMaxBullets, call, scoreVars,
                      sceneVars, engineVars>>

SpecBullets == Init /\ [][NextBullets]_vars

\* SpecLimit: the bullet manager with its limit set by callers; bullets are
\* added up to the limit and at it
MaxBulletsInputs == {-1, 0, 1, 2}
LimitDeltaTimes == {500, 3000}

NextLimit ==
    \/ /\ Len(bullets) < MaxLiveBullets \/ Len(bullets) >= currentMaxBullets
       /\ BulletManager_addBullet(getShootPosition(NewPlayer).x,
                                  getShootPosition(NewPlayer).y)
       /\ UNCHANGED <<shootingStats, hitEvent, spawnVars, gridVars, removedLast, currentMaxBullets, call, scoreVars,
                      sceneVars, engineVars>>
    \/ \E dt \in LimitDeltaTimes :
           /\ BulletManager_update(dt)
           /\ strayReleases' <= MaxStray
           /\ UNCHANGED <<shootingStats, hitEvent, spawnVars, gridVars, removedLast, currentMaxBullets, call, scoreVars,
                          sceneVars, engineVars>>
    \/ \E b \in 1..Len(bullets) :
           /\ BulletManager_removeBullet(b)
           /\ UNCHANGED <<shootingStats, hitEvent, spawnVars, gridVars, removedLast, currentMaxBullets, call, scoreVars,
                          sceneVars, engineVars>>
    \/ \E maxCount \in MaxBulletsInputs :
           /\ BulletManager_setMaxBullets(maxCount)
           /\ UNCHANGED <<shootingStats, hitEvent, spawnVars, gridVars, removedLast, call, scoreVars,
                          sceneVars, engineVars>>

SpecLimit == Init /\ [][NextLimit]_vars

\* SpecLive: obstacles and bullets advanced by their managers' updates, with
\* no hits; obstacles drift a whole spawn interval per update so that they
\* leave the screen, bullets are fired from the muzzle
NextLive ==
    \/ /\ ObstacleManager_update(2000, CombatDraws)
       /\ removedLast' = Len(obstacles) + Len(floatingObstacles)
                            + (IF spawnEvent'.spawned THEN 1 ELSE 0)
                            + (IF spawnEvent'.fspawned THEN 1 ELSE 0)
                            - Len(obstacles') - Len(floatingObstacles')
       /\ UNCHANGED <<sceneVars, engineVars, allPoolVars, gridVars, scoreVars,
                      combatVars, currentMaxBullets, call>>
    \/ /\ Len(bullets) < MaxLiveBullets
       /\ BulletManager_addBullet(getShootPosition(NewPlayer).x,
                                  getShootPosition(NewPlayer).y)
       /\ UNCHANGED <<shootingStats, hitEvent, spawnVars, gridVars, removedLast, currentMaxBullets, call, scoreVars,
                      sceneVars, engineVars>>
    \/ \E dt \in BulletDeltaTimes :
           /\ BulletManager_update(dt)
           /\ strayReleases' <= MaxStray
           /\ UNCHANGED <<shootingStats, hitEvent, spawnVars, gridVars, removedLast, currentMaxBullets, call, scoreVars,
                          sceneVars, engineVars>>

SpecLive == Init /\ [][NextLive]_vars

\* SpecScene: sessions of the game scene stepped 100 ms at a time; Space
\* starts a session from the menu or the game-over scene and makes the player
\* jump during play.  A ground obstacle reaches the player 3.9 s into a
\* session, a floating one 4.9 s into it.
SceneDraws ==
    [types |-> {"basic"}, nsts |-> {(OBSTACLE_SPAWN_INTERVAL * 8) \div 10},
     ftypes |-> {"floating"}, ys |-> {U(FLOATING_OBSTACLE_MAX_Y) - 1},
     fys |-> {0},
     nfsts |-> {(FLOATING_OBSTACLE_SPAWN_INTERVAL * 7) \div 10}]

SceneDeltaTimes == {100 * TicksPerMs}

NextScene ==
    \/ \E dt \in SceneDeltaTimes :
           /\ currentScene = "game"
           /\ gameTime + dt <= MaxGameTime
           /\ GameScene_update(dt, SceneDraws)
           /\ UNCHANGED <<gridVars, removedLast, currentMaxBullets, call, engineVars>>
    \/ /\ currentScene # "game" => sceneEvent.sessions < MaxSessions
       /\ Scene_handleInput("Space")
       /\ UNCHANGED <<gridVars, removedLast, currentMaxBullets, call, engineVars>>

SpecScene == Init /\ [][NextScene]_vars

\* SpecOver: sessions of the game scene stepped 100 ms at a time in which the
\* player jumps (Space) and shoots (KeyX) between updates; the callbacks of
\* checkBulletCollisions() run before anything else follows an update.
OverKeys == {"Space", "KeyX"}

NextOver ==
    \/ \E dt \in SceneDeltaTimes :
           /\ currentScene = "game"
           /\ ~inCheckBulletCollisions
           /\ gameTime + dt <= MaxGameTime
           /\ GameScene_updateToCollisions(dt, SceneDraws)
           /\ UNCHANGED <<gridVars, removedLast, currentMaxBullets, call, engineVars>>
    \/ \E b \in 1..Len(bullets), i \in 1..Len(floatingObstacles) :
           /\ inCheckBulletCollisions
           /\ GameScene_handleBulletObstacleCollision(b, i)
           /\ UNCHANGED <<sceneVars, engineVars, allPoolVars, gridVars, removedLast,
                          currentMaxBullets, call>>
    \/ \E key \in OverKeys :
           /\ ~inCheckBulletCollisions
           /\ currentScene # "game" => sceneEvent.sessions < MaxSessions
           /\ Scene_handleInput(key)
           /\ UNCHANGED <<gridVars, removedLast, currentMaxBullets, call, engineVars>>

SpecOver == Init /\ [][NextOver]_vars

\* SpecEngine: the engine's frames.  A frame comes 16 ms after the previous
\* reading of the clock or, after a stall, a whole second after it; at most
\* one key is pressed per frame; pause() and resume() come between frames.
FrameElapsed == {16, 1000}

InputKeys == {"none", "Space", "KeyX", "Escape", "KeyR"}

NextEngine ==
    \/ GameEngine_start /\ UNCHANGED <<worldVars, gridVars, removedLast, currentMaxBullets, call, sceneVars>>
    \/ /\ ~isPaused
       /\ GameEngine_pause
       /\ UNCHANGED <<worldVars, gridVars, removedLast, currentMaxBullets, call, sceneVars>>
    \/ /\ isPaused
       /\ GameEngine_resume
       /\ UNCHANGED <<worldVars, gridVars, removedLast, currentMaxBullets, call, sceneVars>>
    \/ \E elapsed \in FrameElapsed :
           /\ frame.n < MaxFrames
           /\ GameEngine_gameLoop(elapsed)
           /\ UNCHANGED <<currentScore, scoreMultiplier, comboCount, lastShootTime,
                          hitLog, scoreEvent>>
           /\ UNCHANGED <<allPoolVars, spawnVars, gridVars, removedLast, currentMaxBullets, call, combatVars, sceneVars>>
    \/ SystemIntegration_updateSystems(SceneDraws) /\ UNCHANGED <<gridVars, removedLast, currentMaxBullets, call>>
    \/ \E key \in InputKeys : GameEngine_handleInput(key) /\ UNCHANGED <<gridVars, removedLast, currentMaxBullets, call>>
    \/ GameEngine_updateScene(SceneDraws) /\ UNCHANGED <<gridVars, removedLast, currentMaxBullets, call>>
    \/ GameEngine_render /\ UNCHANGED <<worldVars, gridVars, removedLast, currentMaxBullets, call, sceneVars>>

SpecEngine == Init /\ [][NextEngine]_vars

\* SpecShoot: Player.shoot() called at any time on a standing player, between
\* calls of Player.update (simulated time) and readings of Date.now() that lie
\* 150 or 300 ms apart (real time); the two times pass independently.
ShootDeltaTimes == {150 * TicksPerMs, 300 * TicksPerMs}
ShootClockSteps == {150, 300}
MaxShootClock == 1500     \* ms of real time followed in SpecShoot

NextShoot ==
    \/ /\ Player_shoot
       /\ call' = [op |-> "shoot", returned |-> canShootNow(player), at |-> DateNow]
       /\ UNCHANGED <<spawnVars, gridVars, scoreVars, engineVars, removedLast, currentMaxBullets,
                      gameState, gameTime, highScore, currentScene, sceneEvent>>
    \/ \E dt \in ShootDeltaTimes :
           /\ player' = Player_update(player, dt)
           /\ UNCHANGED <<worldVars, gridVars, engineVars, removedLast, currentMaxBullets, call,
                          gameState, gameTime, highScore, currentScene, sceneEvent>>
    \/ \E d \in ShootClockSteps :
           /\ now + d <= MaxShootClock
           /\ Tick(d)
           /\ UNCHANGED <<sceneVars, engineVars, allPoolVars, spawnVars, gridVars,
                          removedLast, currentMaxBullets, call, combatVars>>

SpecShoot == Init /\ [][NextShoot]_vars

\* SpecState: sessions of the game scene stepped 100 ms at a time with the keys
\* that pause, resume, restart and leave a session.  gameOver is reached from
\* update, which returns unless the session is playing, so it is called here
\* on a playing session, and once more on one that is over.
StateKeys == {"Space", "Escape", "KeyR"}
GameOverReasons == {"collision"}

NextState ==
    \/ \E dt \in SceneDeltaTimes :
           /\ currentScene = "game"
           /\ gameTime + dt <= MaxGameTime
           /\ GameScene_update(dt, SceneDraws)
           /\ UNCHANGED <<gridVars, removedLast, currentMaxBullets, call, engineVars>>
    \/ \E key \in StateKeys :
           /\ currentScene # "game" => sceneEvent.sessions < MaxSessions
           /\ gameState # "playing" => sceneEvent.sessions < MaxSessions
           /\ Scene_handleInput(key)
           /\ UNCHANGED <<gridVars, removedLast, currentMaxBullets, call, engineVars>>
    \/ \E reason \in GameOverReasons :
           /\ gameState \in {"playing", "game_over"}
           /\ GameScene_gameOver(reason)
           /\ UNCHANGED <<gridVars, removedLast, currentMaxBullets, engineVars>>

SpecState == Init /\ [][NextState]_vars

\* SpecKeys: sessions of the game scene stepped 100 ms at a time; between
\* updates a key goes down and the scene handles the input: Space (32),
\* X (88), the left Control key (17) or Q (81).
PressedKeyCodes == {32, 88, 17, 81}

NextKeys ==
    \/ \E dt \in SceneDeltaTimes :
           /\ currentScene = "game"
           /\ gameTime + dt <= MaxGameTime
           /\ GameScene_update(dt, SceneDraws)
           /\ UNCHANGED <<gridVars, removedLast, currentMaxBullets, call, engineVars>>
    \/ \E keyCode \in PressedKeyCodes :
           /\ currentScene # "game" => sceneEvent.sessions < MaxSessions
           /\ Scene_handleKeydown(keyCode)
           /\ UNCHANGED <<gridVars, removedLast, currentMaxBullets, engineVars>>

SpecKeys == Init /\ [][NextKeys]_vars

\* SpecAccrue: uninterrupted play from the start of a session, frame by
\* frame: every update is given the deltaTime of a 16 ms frame or the engine's
\* cap of 1/30 s, nothing is shot and no key is pressed after the Space that
\* starts the session.
FrameDeltaTimes == {16 * TicksPerMs, TicksPerSecond \div 30}
MaxAccrueTime == 6600      \* ticks (2.2 s) of play followed in SpecAccrue

NextAccrue ==
    \/ \E dt \in FrameDeltaTimes :
           /\ currentScene = "game"
           /\ gameTime + dt <= MaxAccrueTime
           /\ GameScene_update(dt, SceneDraws)
           /\ UNCHANGED <<gridVars, removedLast, currentMaxBullets, call, engineVars>>
    \/ /\ currentScene = "menu"
       /\ Scene_handleInput("Space")
       /\ UNCHANGED <<gridVars, removedLast, currentMaxBullets, call, engineVars>>

SpecAccrue == Init /\ [][NextAccrue]_vars

\* SpecJump: the player's jumps frame by frame.  Player.update is given the
\* deltaTime of a 16 ms frame or the engine's cap of 1/30 s; jump() and
\* restartGame() come between updates.

NextJump ==
    \/ \E dt \in FrameDeltaTimes :
           /\ player' = Player_update(player, dt)
           /\ UNCHANGED <<worldVars, gridVars, engineVars, removedLast,
                          currentMaxBullets, call, gameState, gameTime, highScore,
                          currentScene, sceneEvent>>
    \/ /\ player' = Player_jump(player)
       /\ UNCHANGED <<worldVars, gridVars, engineVars, removedLast,
                      currentMaxBullets, call, gameState, gameTime, highScore,
                      currentScene, sceneEvent>>
    \/ /\ sceneEvent.sessions < MaxSessions
       /\ GameScene_restartGame
       /\ UNCHANGED <<gridVars, engineVars, removedLast, currentMaxBullets, call>>

SpecJump == Init /\ [][NextJump]_vars

\* SpecCalls: the side-effect-free methods called on drawn arguments.
\* Rectangles lie on a grid of 2 around a 4 x 4 one, with sides 2, 4 and 6.
RectCoords == {0, 2, 4, 6, 8}
RectSides == {2, 4, 6}
FirstRects == {[x |-> 4, y |-> 4, width |-> 4, height |-> 4],
               [x |-> 4, y |-> 2, width |-> 2, height |-> 6]}
SecondRects == [x : RectCoords, y : RectCoords, width : RectSides, height : RectSides]

\* players and obstacle arrays given to the collision system: the obstacle
\* entries are null, an obstacle on the player, the same inactive, and one far
\* from the player
MaxObstacleEntries == 2

CollisionPlayers == {NewPlayer, [NewPlayer EXCEPT !.active = FALSE], Null}

ObstacleEntries ==
    {Null,
     NewObstacle(U(PLAYER_CENTER_X), 0, "basic"),
     [NewObstacle(U(PLAYER_CENTER_X), 0, "basic") EXCEPT !.active = FALSE],
     NewObstacle(U(CANVAS_WIDTH), 0, "basic")}

ObstacleArrays == UNION {[1..n -> ObstacleEntries] : n \in 0..MaxObstacleEntries}

\* values a caller may hand to the setters of a cooldown or a distance
SetterInputs == {-900, -300, -1, 0, 1, 300, 900}

\* combo counts handed to getComboMultiplier: below, at, between and beyond
\* the thresholds
MaxComboCount == 22
ComboCounts == -1 .. MaxComboCount

NextCalls ==
    \/ \E c \in ComboCounts :
           /\ ScoreSystem_getComboMultiplier(c)
           /\ UNCHANGED <<worldVars, gridVars, sceneVars, engineVars, removedLast, currentMaxBullets>>
    \/ \E cooldownTime \in SetterInputs :
           /\ Player_setShootCooldown(cooldownTime)
           /\ UNCHANGED <<worldVars, gridVars, sceneVars, engineVars, removedLast, currentMaxBullets>>
    \/ \E distance \in SetterInputs :
           /\ Bullet_setMaxDistance(distance)
           /\ UNCHANGED <<worldVars, gridVars, sceneVars, engineVars, removedLast, currentMaxBullets>>
    \/ \E e \in CollisionPlayers, obs \in ObstacleArrays :
           /\ CollisionSystem_checkPlayerObstacleCollisions(e, obs)
           /\ UNCHANGED <<worldVars, gridVars, sceneVars, engineVars, removedLast, currentMaxBullets>>
    \/ \E rect1 \in FirstRects, rect2 \in SecondRects :
           /\ PhysicsSystem_collisionInfo(rect1, rect2)
           /\ UNCHANGED <<worldVars, gridVars, sceneVars, engineVars, removedLast, currentMaxBullets>>

SpecCalls == Init /\ [][NextCalls]_vars

\* SpecNear: checkPlayerObstacleCollision on a player standing at its place or
\* 45 px above it, and on arrays of ground obstacles around the player and
\* around the edge of the 100-unit window: a wide one overlapping the player's
\* left edge by 0.2 and one touching it, a basic one overlapping the right
\* edge by 0.2, an inactive one on the player, a tall one on the player, and
\* basic and wide ones with their centres 100 and 100.2 from the player's
NearPlayers ==
    {NewPlayer,
     [NewPlayer EXCEPT !.y = @ - P(45), !.isGrounded = FALSE]}

NearEntries ==
    {NewObstacle(U(340) + 1, U(GROUND_Y), "wide"),
     NewObstacle(U(340), U(GROUND_Y), "wide"),
     NewObstacle(U(412) - 1, U(GROUND_Y), "basic"),
     [NewObstacle(U(PLAYER_CENTER_X), U(GROUND_Y), "basic") EXCEPT !.active = FALSE],
     NewObstacle(U(PLAYER_CENTER_X), U(GROUND_Y), "tall"),
     NewObstacle(U(484), U(GROUND_Y), "basic"),
     NewObstacle(U(484) + 1, U(GROUND_Y), "basic"),
     NewObstacle(U(476), U(GROUND_Y), "wide")}

NearArrays == UNION {[1..n -> NearEntries] : n \in 0..MaxObstacleEntries}

NextNear ==
    \E e \in NearPlayers, obs \in NearArrays :
        /\ PhysicsSystem_checkPlayerObstacleCollision(e, obs)
        /\ UNCHANGED <<worldVars, gridVars, sceneVars, engineVars, removedLast,
                       currentMaxBullets>>

SpecNear == Init /\ [][NextNear]_vars

----------------------------------------------------------------------------
\* C1: after any sequence of get() and release() the number of outstanding
\* items (the length of the active list) never exceeds maxSize.
C1_ActiveWithinMaxSize == Len(active) <= MaxSize

\* C2: in every reachable state outstanding plus free (getTotalSize) is at
\* most maxSize.
C2_TotalWithinMaxSize == getTotalSize(pool, active) <= MaxSize

\* C3: releasing an already released item leaves the free list unchanged, so
\* no item ever appears twice in the free list.
C3_NoDuplicateInFreeList == \A x \in Range(pool) : Count(pool, x) = 1

\* C4: when update spawns an obstacle at the right edge, every obstacle already
\* live in that class has its right edge at least MIN_GAP left of CANVAS_WIDTH;
\* hence any two live obstacles of one class are always at least MIN_GAP apart.
SameClassGap(obs) ==
    \A i, j \in 1..Len(obs) :
        i # j => \/ obs[i].x + obs[i].width + U(MIN_GAP) <= obs[j].x
                 \/ obs[j].x + obs[j].width + U(MIN_GAP) <= obs[i].x

ClearOfRightEdge(obs) ==
    \A i \in 1..Len(obs) :
        obs[i].x + obs[i].width <= U(CANVAS_WIDTH) - U(MIN_GAP)

C4_SpawnGating ==
    /\ [][/\ spawnEvent'.spawned => ClearOfRightEdge(obstacles)
          /\ spawnEvent'.fspawned => ClearOfRightEdge(floatingObstacles)]_vars
    /\ [](SameClassGap(obstacles) /\ SameClassGap(floatingObstacles))

C4_Witness ==
    /\ spawnEvent.spawned /\ Len(obstacles) >= 2
    /\ spawnEvent.fspawned /\ Len(floatingObstacles) >= 2

\* C5: when the ground spawn timer has elapsed but the gap gate rejects the
\* spawn, update creates no obstacle and leaves lastSpawnTime (advanced by
\* deltaTime, not zeroed) and nextSpawnTime (not re-rolled) alone.
C5_RejectedSpawnKeepsTimer ==
    [][(spawnEvent'.op = "update" /\ spawnEvent'.due /\ ~spawnEvent'.spawned)
         => /\ lastSpawnTime' = lastSpawnTime + spawnEvent'.dt
            /\ nextSpawnTime' = nextSpawnTime]_vars

\* C6: every floating obstacle has 50 <= y <= GROUND_Y - height - 50, at spawn
\* and after every update.
InBand(o) == U(50) <= o.y /\ o.y <= U(GROUND_Y) - o.height - U(50)

C6_FloatingBand ==
    /\ \A y \in SpawnYs, t \in FloatingTypes : InBand(NewObstacle(U(CANVAS_WIDTH), y, t))
    /\ \A i \in 1..Len(floatingObstacles) : InBand(floatingObstacles[i])

C6_Witness ==
    \E i \in 1..Len(floatingObstacles) :
        LET o == floatingObstacles[i]
        IN  /\ o.type = "floating_large"
            /\ o.y = U(GROUND_Y) - o.height - U(50)
            /\ o.y < o.originalY + U(50) - 1

\* C7: for every entity snapshot the pairs returned by
\* checkCollisionsWithSpatialPartitioning are exactly the pairs of active
\* entities for which the all-pairs test checkRectangleCollision is true.
BruteForcePairs(es) ==
    {{i, j} : <<i, j>> \in
        {q \in (1..Len(es)) \X (1..Len(es)) :
            /\ q[1] < q[2]
            /\ es[q[1]].active /\ es[q[2]].active
            /\ checkRectangleCollision(es[q[1]], es[q[2]])}}

C7_GridEqualsBruteForce == collisions = BruteForcePairs(entities)

\* C8: a scoring event at time t with t - lastShootTime <= 3000 sets comboCount
\* to the count left by the previous scoring event plus one (0 plus one when
\* there was none since construction or reset); one with t - lastShootTime >
\* 3000 sets it to 1, whatever updates ran in between.
PreviousCombo == IF hitLog = <<>> THEN 0 ELSE hitLog[Len(hitLog)].combo

C8_ComboWindow ==
    [][Len(hitLog') = Len(hitLog) + 1
         => /\ now - lastShootTime <= 3000 => comboCount' = PreviousCombo + 1
            /\ now - lastShootTime > 3000 => comboCount' = 1]_vars

C8_Witness ==
    /\ scoreEvent.op = "addShootingScore"
    /\ scoreEvent.gap = 3000
    /\ scoreEvent.updated
    /\ comboCount >= 2

\* C9: from a fresh session, destroying hits each within 2.5 s of the previous
\* one give comboCount 1,2,3,4,5 and combo multipliers 1.0, 1.2, 1.5, 1.5, 2.0.
ComboRun(n) == \A i \in 2..n : hitLog[i].quick

ComboSequence(mults) ==
    \A n \in 1..Min(Len(hitLog), 5) :
        ComboRun(n) => hitLog[n].combo = n /\ hitLog[n].mult = mults[n]

C9_ComboSequence == ComboSequence(<<10, 12, 15, 15, 20>>)

C9_Witness ==
    /\ Len(hitLog) = 5 /\ ComboRun(5) /\ comboCount = 5
    /\ scoreEvent.op = "addShootingScore" /\ scoreEvent.gap = 2500
    /\ lastShootTime = 4 * 2500

\* C9 as stated: the multipliers are 1.0, 1.0, 1.5, 1.5, 2.0.
C9_AsStated == ComboSequence(<<10, 10, 15, 15, 20>>)

\* C10: a floating_large obstacle starts with health 2; the first hit on it
\* leaves it live with health 1 and leaves score, comboCount and lastShootTime
\* alone; the second hit removes it and is exactly one scoring event; each hit
\* removes the projectile.
C10_TwoHitsDestroyLarge ==
    /\ [][(shootingStats'.shotsHit = shootingStats.shotsHit + 1
             /\ floatingObstacles[hitEvent'.i].type = "floating_large")
          => LET i == hitEvent'.i
                 o == floatingObstacles[i]
             IN  /\ bullets' = RemoveAt(bullets, hitEvent'.b)
                 /\ o.health = 2 =>
                      /\ floatingObstacles' =
                             [floatingObstacles EXCEPT ![i].health = 1]
                      /\ floatingObstacles'[i].active
                      /\ UNCHANGED <<currentScore, comboCount, lastShootTime, hitLog>>
                 /\ o.health = 1 =>
                      /\ floatingObstacles' = RemoveAt(floatingObstacles, i)
                      /\ Len(hitLog') = Len(hitLog) + 1
                      /\ comboCount' = IF now - lastShootTime <= 3000
                                       THEN comboCount + 1 ELSE 1
                      /\ lastShootTime' = now]_vars
    /\ [](\A i \in 1..Len(floatingObstacles) :
             floatingObstacles[i].type = "floating_large"
                 => /\ floatingObstacles[i].health \in {1, 2}
                    /\ floatingObstacles[i].active)
    /\ \A y \in SpawnYs : NewObstacle(U(CANVAS_WIDTH), y, "floating_large").health = 2

C10_Witness ==
    /\ hitEvent.op = "hit"
    /\ hitEvent.type = "floating_large"
    /\ hitEvent.healthBefore = 1
    /\ hitEvent.destroyed
    /\ comboCount >= 2

\* C11: a scoring event for a kind with base score B adds
\* floor(floor(B * comboMultiplier(comboCount)) * timeMultiplier) to the score,
\* with timeMultiplier = min(3.0, 1 + 0.1 * floor(gameTime / 30 s)).
TimeMultiplier(gt) == Min(30, 10 + gt \div 30000)

C11_ScoringFormula ==
    scoreEvent.op = "addShootingScore"
        => scoreEvent.gain =
               (((scoreEvent.base * getComboMultiplier(comboCount)) \div 10)
                    * TimeMultiplier(scoreEvent.gameTime)) \div 10

----------------------------------------------------------------------------
\* C12: when a GameScene.update made while playing returns, and the player's
\* bounding box strictly overlaps the box of an active obstacle, ground or
\* floating, as the update left them, gameState is 'game_over'.
PlayerOverlaps(obs) ==
    \E i \in 1..Len(obs) :
        /\ obs[i].active
        /\ checkRectangleCollision(player, ObstacleBounds(obs[i]))

C12_CollisionEndsSession ==
    (sceneEvent.op = "update"
        /\ (PlayerOverlaps(obstacles) \/ PlayerOverlaps(floatingObstacles)))
        => gameState = "game_over"

\* C13: on the transition to game_over the current score is not reduced and
\* the high score becomes max(previous high score, current score); the high
\* score changes only when the current score is strictly greater than it,
\* so it never decreases from one step or session to the next.
C13_HighScoreOnGameOver ==
    [][/\ (gameState # "game_over" /\ gameState' = "game_over")
              => /\ currentScore' >= currentScore
                 /\ highScore' = Max(highScore, currentScore')
       /\ highScore' >= highScore
       /\ highScore' # highScore => currentScore' > highScore]_vars

\* a second session has ended below the record the first session set
C13_Witness ==
    /\ gameState = "game_over"
    /\ sceneEvent.op = "update"
    /\ sceneEvent.sessions = 2
    /\ highScore \notin StoredHighScores
    /\ currentScore < highScore

\* C14: every bullet that leaves the live collection is released to the pool
\* it was acquired from, so the pool's outstanding count always equals the
\* number of pool-sourced bullets in the live collection.
PoolSourced == {i \in 1..Len(bullets) : bullets[i].poolId # -1}

C14_NoBulletLeaked == Len(active) = Cardinality(PoolSourced)

\* C15: after every ObstacleManager.update the obstacle collections, and after
\* every BulletManager.update the bullet collection, hold no entity whose
\* active flag is false and no obstacle whose right edge is left of x = 0.
NoGarbage(obs) ==
    \A i \in 1..Len(obs) : obs[i].active /\ obs[i].x + obs[i].width >= 0

C15_LiveCollectionsClean ==
    /\ spawnEvent.op = "update" => NoGarbage(obstacles) /\ NoGarbage(floatingObstacles)
    /\ bulletEvent.op = "update" => \A i \in 1..Len(bullets) : bullets[i].active

\* an obstacle update has just removed an obstacle and left others, and the
\* last bullet update retired a bullet and kept another
C15_Witness ==
    /\ spawnEvent.op = "update"
    /\ removedLast > 0
    /\ Len(obstacles) + Len(floatingObstacles) > 0
    /\ bulletEvent.op = "update"
    /\ bulletEvent.retired > 0
    /\ bullets # <<>>
\* C16: when the bullet pool's get() returns null, addBullet creates no
\* bullet: it returns null and leaves the live bullet collection as it was.
C16_ExhaustionSkipsShot ==
    (bulletEvent.op = "addBullet" /\ lastOp = [op |-> "get", obj |-> -1])
        => /\ bulletEvent.returned = -2
           /\ Len(bullets) = bulletEvent.before
\* C17: a gameLoop frame that is not paused has run the current scene's update
\* exactly once when it ends, and if the game scene was playing all through
\* the frame, gameTime has advanced by exactly the frame's clamped deltaTime.
FrameDone == pending = <<>> /\ frame.n > 0

C17_OneSceneUpdatePerFrame ==
    (FrameDone /\ ~frame.paused)
        => /\ frame.sceneUpdates = 1
           /\ frame.playing => gameTime = frame.gameTime + deltaTime

\* C18: whatever real time has elapsed since the previous frame, the deltaTime
\* a frame passes to update is at most 1/30 s.
C18_DeltaTimeClamped ==
    pending # <<>> => deltaTime <= TicksPerSecond \div 30

\* a frame that follows a stall of a second is about to update with 1/30 s
C18_Witness ==
    /\ pending # <<>>
    /\ Head(pending) = "updateSystems"
    /\ frame.elapsed > TicksPerSecond \div 30
    /\ deltaTime = TicksPerSecond \div 30

\* C19: a step of a frame made while the engine is paused, or while the game
\* scene is and stays paused, leaves the player, every obstacle and bullet,
\* the spawn timers, gameTime, currentScore and comboCount unchanged; and
\* every frame, paused or not, has rendered once when it ends.
SimulationState ==
    <<player, obstacles, floatingObstacles, bullets, lastSpawnTime, nextSpawnTime,
      lastFloatingSpawnTime, nextFloatingSpawnTime, gameTime, currentScore,
      comboCount>>

SessionPaused == currentScene = "game" /\ gameState = "paused"

C19_PausedFramesChangeNothing ==
    [][/\ (pending # <<>> /\ (isPaused \/ (SessionPaused /\ SessionPaused')))
              => UNCHANGED SimulationState
       /\ (pending # <<>> /\ pending' = <<>>) => frame'.renders = 1]_vars

\* a frame has ended with the engine paused, after the game scene's update
\* returned at once in a paused session, over a player in the air and a
\* bullet in flight
C19_Witness ==
    /\ FrameDone /\ frame.paused /\ frame.renders = 1
    /\ SessionPaused /\ sceneEvent.op = "update_returned"
    /\ ~player.isGrounded /\ bullets # <<>>
\* C20: a bullet fired rightward from the player's muzzle that hits nothing
\* is retired by an update only when it has flown for
\* maxDistance / BULLET_SPEED = 2.25 s or longer.
C20_BulletFliesMaxDistance ==
    bulletEvent.op = "update"
        => \A i \in 1..Len(bulletEvent.lives) :
               bulletEvent.lives[i] >= (maxDistance * 1000) \div BULLET_SPEED
\* C21: a bullet in the live collection has been given less than maxLifeTime
\* of update time since it was added, and its lifeTime is that time: once the
\* deltaTimes sum to maxLifeTime the bullet has been retired, and no bullet is
\* updated with lifeTime >= maxLifeTime.
C21_BulletsRetiredByMaxLifeTime ==
    \A i \in 1..Len(bullets) :
        /\ bullets[i].age < maxLifeTime
        /\ bullets[i].lifeTime = bullets[i].age
        /\ bullets[i].active

\* an update has retired two bullets for their lifetime, one of them on the
\* update that followed its creation, and emptied the live collection
C21_Witness ==
    /\ bulletEvent.op = "update"
    /\ bulletEvent.retired >= 2
    /\ \E i \in 1..Len(bulletEvent.lives) : bulletEvent.lives[i] = maxLifeTime
    /\ \E i \in 1..Len(bulletEvent.lives) : bulletEvent.lives[i] > maxLifeTime
    /\ bullets = <<>>
\* C22: for two overlapping rectangles getCollisionSide returns the first
\* side, in the order left, right, top, bottom, whose penetration depth is
\* the smallest of the four, and getCollisionPoint is the point of that side.
Depths(rect1, rect2) ==
    <<overlapLeft(rect1, rect2), overlapRight(rect1, rect2),
      overlapTop(rect1, rect2), overlapBottom(rect1, rect2)>>

SideNames == <<"left", "right", "top", "bottom">>

FirstMinimum(d) ==
    CHOOSE k \in 1..4 : /\ \A j \in 1..4 : d[k] <= d[j]
                        /\ \A j \in 1..(k - 1) : d[j] > d[k]

PointOfSide(side, rect1, rect2) ==
    CASE side = "left"   -> [x |-> rect2.x, y |-> rect1.y + rect1.height \div 2]
      [] side = "right"  -> [x |-> rect2.x + rect2.width, y |-> rect1.y + rect1.height \div 2]
      [] side = "top"    -> [x |-> rect1.x + rect1.width \div 2, y |-> rect2.y]
      [] side = "bottom" -> [x |-> rect1.x + rect1.width \div 2, y |-> rect2.y + rect2.height]

C22_CollisionSideFirstMinimum ==
    (call.op = "collisionInfo" /\ checkRectangleCollision(call.rect1, call.rect2))
        => /\ call.collisionSide = SideNames[FirstMinimum(Depths(call.rect1, call.rect2))]
           /\ call.collisionPoint = PointOfSide(call.collisionSide, call.rect1, call.rect2)

\* overlapping rectangles whose smallest depth is reached by right and bottom
\* only
C22_Witness ==
    /\ call.op = "collisionInfo"
    /\ checkRectangleCollision(call.rect1, call.rect2)
    /\ overlapRight(call.rect1, call.rect2) = overlapBottom(call.rect1, call.rect2)
    /\ overlapRight(call.rect1, call.rect2) < overlapLeft(call.rect1, call.rect2)
    /\ overlapRight(call.rect1, call.rect2) < overlapTop(call.rect1, call.rect2)
    /\ call.collisionSide = "right"
\* C23: for any player and any obstacle array, null and inactive entries
\* included, checkPlayerObstacleCollisions does not throw, reports no
\* collision with a null or inactive obstacle, and returns null when the
\* player is null or inactive.
C23_InvalidEntriesExcluded ==
    call.op = "checkPlayerObstacleCollisions"
        => /\ call.outcome # "TypeError"
           /\ (isNull(call.player) \/ ~call.player.active) => call.outcome = "null"
           /\ call.outcome = "collision"
                  => /\ ~isNull(call.obstacles[call.obstacle])
                     /\ call.obstacles[call.obstacle].active
\* C24: the handleInput of a frame of the playing game scene changes
\* velocityY, isGrounded, canJump or jumpCooldown only by a jump, and a jump
\* takes effect only on Space with the player grounded, allowed to jump and
\* out of jump cooldown; it sets velocityY to JUMP_FORCE.
JumpFields(e) == <<e.velocityY, e.isGrounded, e.canJump, e.jumpCooldown>>

C24_JumpOnlyWhenGrounded ==
    [][(/\ pending # <<>> /\ Head(pending) = "handleInput"
        /\ currentScene = "game" /\ gameState = "playing"
        /\ JumpFields(player') # JumpFields(player))
            => /\ frame'.key = "Space"
               /\ player.isGrounded /\ player.canJump /\ player.jumpCooldown <= 0
               /\ player'.velocityY = JUMP_FORCE * VelocityUnits
               /\ ~player'.isGrounded /\ ~player'.canJump]_vars

\* Space has just been handled with the player in the air, inside the jump
\* cooldown of an earlier jump, and no impulse was applied
C24_Witness ==
    /\ pending # <<>> /\ Head(pending) = "sceneManager.update"
    /\ frame.key = "Space"
    /\ currentScene = "game" /\ gameState = "playing"
    /\ ~player.isGrounded
    /\ player.jumpCooldown > 0
    /\ player.velocityY > JUMP_FORCE * VelocityUnits
\* C25: while less than shootCooldownTime (300 ms) has passed since the last
\* successful shoot(), no step fires a shot: no bullet is created, no shot is
\* counted and lastShootTime stays; a shoot() that fires records its own time
\* as lastShootTime, so two successful calls lie at least 300 ms apart, and a
\* shoot() that returns false creates no bullet.
C25_ShootCooldown ==
    [][/\ DateNow - player.lastShootTime < SHOOT_COOLDOWN
              => /\ bullets' = bullets
                 /\ shootingStats'.shotsFired = shootingStats.shotsFired
                 /\ player'.lastShootTime = player.lastShootTime
       /\ Len(bullets') > Len(bullets)
              => /\ player'.lastShootTime = DateNow
                 /\ call'.op = "shoot" /\ call'.returned
       /\ (call' # call /\ ~call'.returned) => bullets' = bullets]_vars

\* after two shots that fired, a third shoot() made less than 300 ms after
\* the second has returned false
C25_Witness ==
    /\ call.op = "shoot"
    /\ ~call.returned
    /\ call.at - player.lastShootTime < SHOOT_COOLDOWN
    /\ call.at > player.lastShootTime
    /\ player.canShoot
    /\ shootingStats.shotsFired = 2
    /\ Len(bullets) = 2
\* C26: after Player.setShootCooldown or Bullet.setMaxDistance is given a
\* negative value, the value stored is not negative: it is the smallest
\* valid value, 0; a valid value is stored as given.
C26_NegativeSettingsClamped ==
    call.op \in {"setShootCooldown", "setMaxDistance"}
        => call.stored = Max(0, call.input)
\* C27: between two calls of reset(), no call of update, addScore,
\* addTimeScore, addDistanceScore, addObstacleBonus, addShootingScore or
\* setScoreMultiplier lowers currentScore, and addScore with points <= 0
\* leaves it as it was.
C27_ScoreNeverDecreases ==
    [][scoreEvent'.op # "reset"
           => /\ currentScore' >= currentScore
              /\ (scoreEvent'.op = "addScore" /\ scoreEvent'.base <= 0)
                     => currentScore' = currentScore]_vars

\* a call of addScore with negative points, after a negative multiplier was
\* set, in a session that has scored
C27_Witness ==
    /\ scoreEvent.op = "addScore"
    /\ scoreEvent.base < 0
    /\ scoreMultiplier > 10
    /\ currentScore > 0
\* C28: getComboMultiplier(comboCount) is the step function with the
\* thresholds 2: 1.2, 3: 1.5, 5: 2.0, 10: 3.0, 15: 4.0, 20: 5.0: it returns
\* the value of the highest threshold <= comboCount, 1.0 below 2, and of two
\* calls the one with the larger comboCount returns at least as much.
StepTable == {<<2, 12>>, <<3, 15>>, <<5, 20>>, <<10, 30>>, <<15, 40>>, <<20, 50>>}

StepValue(c) ==
    LET reached == {p \in StepTable : p[1] <= c}
    IN  IF reached = {} THEN 10
        ELSE (CHOOSE p \in reached : \A q \in reached : q[1] <= p[1])[2]

C28_ComboMultiplierStepFunction ==
    [][call'.op = "getComboMultiplier"
           => /\ call'.returned = StepValue(call'.comboCount)
              /\ (call.op = "getComboMultiplier"
                      /\ call.comboCount <= call'.comboCount)
                     => call.returned <= call'.returned]_vars

\* a call with a combo count between two thresholds
C28_Witness ==
    /\ call.op = "getComboMultiplier"
    /\ call.comboCount = 7
    /\ call.returned = 20
\* C29: every obstacle of a ground kind (basic, tall, wide) in the live
\* collection, constructed or taken from the pool, has y + height = GROUND_Y
\* when it is spawned and after every update.
C29_GroundObstaclesAnchored ==
    \A i \in 1..Len(obstacles) :
        obstacles[i].type \in GroundTypes
            => obstacles[i].y + obstacles[i].height = U(GROUND_Y)

\* a tall obstacle from the pool that later updates have moved, followed by
\* a second obstacle spawned in the last update
C29_Witness ==
    /\ spawnEvent.op = "update" /\ spawnEvent.spawned
    /\ Len(obstacles) = 2
    /\ obstacles[1].pooled /\ obstacles[1].type = "tall"
    /\ obstacles[1].x < U(CANVAS_WIDTH) - U(MIN_GAP)
    /\ obstacles[2].type = "wide"
\* C30: in every reachable state no obstacle is in both the ground and the
\* floating live collection, no object is twice in a live collection, and
\* no object is at once in the free list of a pool and in a live collection
\* (obstacles, floatingObstacles or bullets).
GroundObjects   == [i \in 1..Len(obstacles) |-> obstacles[i].id]
FloatingObjects == [i \in 1..Len(floatingObstacles) |-> floatingObstacles[i].id]
BulletObjects   == [i \in 1..Len(bullets) |-> bullets[i].poolId]

HeldOnce(objs) ==
    \A i, j \in 1..Len(objs) : (i # j /\ objs[i] > 0) => objs[i] # objs[j]

C30_ExclusiveOwnership ==
    /\ Range(GroundObjects) \cap Range(FloatingObjects) = {}
    /\ HeldOnce(GroundObjects) /\ HeldOnce(FloatingObjects) /\ HeldOnce(BulletObjects)
    /\ Range(obstaclePool) \cap (Range(GroundObjects) \cup Range(FloatingObjects)) = {}
    /\ Range(pool) \cap Range(BulletObjects) = {}
\* C31: after any sequence of addBullet, update, removeBullet and
\* setMaxBullets the live collection holds at most maxBullets bullets;
\* addBullet at the limit returns null and leaves the collection as it was;
\* setMaxBullets stores max(1, maxCount) and, when the collection is longer
\* than the new limit, retires its oldest bullets, keeping the newest.
NewestOf(bs, n) == SubSeq(bs, Len(bs) - n + 1, Len(bs))

C31_BulletCountBounded ==
    [][/\ Len(bullets') <= currentMaxBullets'
       /\ (bulletEvent'.op = "addBullet" /\ Len(bullets) >= currentMaxBullets)
              => bulletEvent'.returned = -2 /\ bullets' = bullets
       /\ bulletEvent'.op = "setMaxBullets"
              => /\ currentMaxBullets' = Max(1, bulletEvent'.maxCount)
                 /\ bullets' = NewestOf(bullets, Min(Len(bullets), currentMaxBullets'))]_vars

\* setMaxBullets(-1) with two bullets of different age in flight: the limit
\* becomes 1 and the younger bullet is the one that stays
C31_Witness ==
    /\ bulletEvent.op = "setMaxBullets"
    /\ bulletEvent.maxCount = -1
    /\ bulletEvent.before = 2 /\ bulletEvent.retired = 1
    /\ currentMaxBullets = 1
    /\ Len(bullets) = 1 /\ bullets[1].age = 500
\* C32: after every get() and release() of OptimizedObjectPool, the
\* discard at capacity and the foreign object included, stats.currentActive
\* is active.length, stats.poolSize is pool.length, and stats.peakUsage is
\* no less than active.length.
C32_StatsMatchLists ==
    /\ statsCurrentActive = Len(active)
    /\ statsPoolSize = Len(pool)
    /\ statsPeakUsage >= Len(active)
\* C33: once gameState is 'game_over', currentScore and comboCount stay as
\* they are until resetGame makes it 'playing' again; no bullet-obstacle
\* resolution is processed after the session-ending collision, not even in
\* the update call that ended the session
C33_ScoreFrozenAfterGameOver ==
    [][(gameState = "game_over" /\ gameState' = "game_over")
          => (currentScore' = currentScore /\ comboCount' = comboCount)]_vars

\* the health setupObstacleType gives a kind
SpawnHealth(type) ==
    IF type = "floating" THEN 1
    ELSE IF type = "floating_large" THEN 2
    ELSE Infinity

MatchesKind(o) ==
    /\ o.type = "tall" => o.height = (U(OBSTACLE_HEIGHT) * 15) \div 10
    /\ o.type = "wide" => o.width = (U(OBSTACLE_WIDTH) * 15) \div 10
    /\ o.canBeShot = isFloating(o.type)
    /\ o.health = SpawnHealth(o.type)
    /\ ~isFloating(o.type) => (takeDamage(o) = o /\ ~takeDamageDestroys(o))

\* C34: every live obstacle, new or taken from the pool, has the attributes
\* of its kind: a tall one is 1.5 base heights high, a wide one 1.5 base
\* widths wide, canBeShot is true exactly for the floating kinds, the health
\* it was spawned with is 1 (floating), 2 (floating_large) or unbounded
\* (ground kinds), and takeDamage on a ground obstacle returns false and
\* leaves it as it is.  No obstacle is hit in SpecSpawn, so health is the
\* health at spawn.
C34_AttributesMatchKind ==
    /\ \A i \in 1..Len(obstacles) :
           obstacles[i].active => MatchesKind(obstacles[i])
    /\ \A i \in 1..Len(floatingObstacles) :
           floatingObstacles[i].active => MatchesKind(floatingObstacles[i])

\* a brute-force AABB test of the player against every active obstacle
bruteForceCollision(e, obs) ==
    \E i \in 1..Len(obs) :
        obs[i].active /\ checkRectangleCollision(e, ObstacleBounds(obs[i]))

\* C35: with the configured sizes (player 24 wide, obstacles up to 1.5 x 32
\* wide) every active obstacle that strictly overlaps the player lies inside
\* the 100-unit window, so checkPlayerObstacleCollision returns a collision
\* exactly when a brute-force AABB test over all active obstacles of the
\* list finds one.
C35_ProximityFilterSound ==
    call.op = "checkPlayerObstacleCollision" =>
        /\ call.returned <=> bruteForceCollision(call.player, call.obstacles)
        /\ \A i \in 1..Len(call.obstacles) :
               (/\ call.obstacles[i].active
                /\ checkRectangleCollision(call.player,
                                           ObstacleBounds(call.obstacles[i])))
                   => isNearby(call.player, call.obstacles[i])

\* a collision is returned for an obstacle 35.8 from the player's centre while
\* the filter has dropped another active obstacle of the list
C35_Witness ==
    /\ call.op = "checkPlayerObstacleCollision"
    /\ call.returned
    /\ Len(call.obstacles) = 2
    /\ call.obstacles[2] = NewObstacle(U(340) + 1, U(GROUND_Y), "wide")
    /\ call.obstacles[1].active
    /\ ~isNearby(call.player, call.obstacles[1])

\* C36: after every Player.update, jump() and resetGame a player with
\* isGrounded = true has its bottom edge exactly on the ground line
\* (y + height = GROUND_Y) and velocityY = 0, and the bottom edge is never
\* below the ground line (y + height <= GROUND_Y) when an update returns.
C36_PlayerGrounding ==
    /\ player.isGrounded =>
           (player.y + player.height = P(GROUND_Y) /\ player.velocityY = 0)
    /\ player.y + player.height <= P(GROUND_Y)

\* C37: gameState changes only from playing to paused (pauseGame), from
\* paused to playing (resumeGame), from playing to game_over (gameOver) and
\* from any state to playing (resetGame); gameOver() called on a session that
\* is already over has no effect, so the high score is saved and
\* onGameOverCallback is invoked at most once per session.
C37_SessionStateMachine ==
    [][/\ gameState' # gameState =>
              \/ gameState = "playing" /\ gameState' = "paused"
              \/ gameState = "playing" /\ gameState' = "game_over"
              \/ gameState' = "playing"
       /\ gameState' = "paused" /\ gameState # "paused" =>
              sceneEvent'.op = "handleInput"
       /\ gameState' = "game_over" /\ gameState # "game_over" =>
              \/ sceneEvent'.op = "gameOver"
              \/ sceneEvent'.op = "update" /\ sceneEvent'.reason # "none"
       /\ gameState = "game_over" /\ gameState' = "playing" =>
              sceneEvent'.op = "resetGame"
       /\ (gameState = "game_over" /\ sceneEvent'.op = "gameOver") =>
              /\ ~call'.saveHighScore
              /\ ~call'.onGameOverCallback
              /\ UNCHANGED <<gameState, highScore, currentScene, worldVars,
                             gameTime, player>>]_vars

\* gameOver() has been called on a session that had ended with a new high
\* score, and did nothing
C37_Witness ==
    /\ sceneEvent.op = "gameOver"
    /\ call.op = "gameOver"
    /\ ~call.onGameOverCallback
    /\ gameState = "game_over"
    /\ highScore > 0
    /\ highScore = currentScore

\* the keyCodes of the shoot keys, X and the left Control key
ShootKeyCodes == {88, 17}

\* C38: while the session is playing, a fresh press of a shoot key with the
\* shoot cooldown elapsed and fewer than maxBullets live bullets puts exactly
\* one new bullet into the bullet manager's collection, at the player's right
\* edge (bullets fly to the right from where they start).
C38_ShootKeyAddsBullet ==
    [][(/\ call'.op = "keydown"
        /\ call'.keyCode \in ShootKeyCodes
        /\ currentScene = "game"
        /\ gameState = "playing"
        /\ canShootNow(player)
        /\ Len(bullets) < currentMaxBullets)
          => /\ Len(bullets') = Len(bullets) + 1
             /\ SubSeq(bullets', 1, Len(bullets)) = bullets
             /\ bullets'[Len(bullets')].x = getShootPosition(player).x
             /\ bullets'[Len(bullets')].startX = getShootPosition(player).x
             /\ bullets'[Len(bullets')].active]_vars

\* C39: time-based score accrues at TIME_SCORE_RATE = 10 points per second:
\* in uninterrupted play at multiplier 1.0, with every tick's deltaTime in
\* (0, 1/30] s and nothing shot, currentScore strictly increases within every
\* second of accumulated play time; so, the score being a whole number that
\* starts at 0, it is at least the number of whole seconds played.
C39_TimeScoreAccrues ==
    (currentScene = "game" /\ scoreMultiplier = 10 /\ shootingStats.shotsHit = 0)
        => currentScore >= gameTime \div TicksPerSecond

====
